---------------------------- MODULE Spec2Model ----------------------------
(***************************************************************************)
(* h2gb project engine: reversible actions, the undo/redo record that      *)
(* drives them, and the byte buffer with its transformation stack.         *)
(*                                                                         *)
(* Three specifications share the variables below:                         *)
(*   SpecAction  one action object, apply/undo called on it directly       *)
(*   Spec        the undo/redo record (do / undo / redo) over a project    *)
(*   SpecBuffer  one H2Buffer and its operations                           *)
(***************************************************************************)
EXTENDS Integers, Sequences, FiniteSets, TLC

VARIABLES
    project,    \* the H2Project the actions mutate: [name, buffers]
    action,     \* SpecAction: the action object under direct calls (Option)
    entries,    \* Spec: the record's entries, a sequence of actions
    current,    \* Spec: the record's cursor, 0..Len(entries)
    buffer,     \* SpecBuffer: the buffer under test (Option)
    cloned,     \* SpecBuffer: what the last clone_* call returned (Option)
    created,    \* SpecBuffer: the bytes the buffer was created with, and
                \* whether every call since stored bytes it computed (Option)
    trail,      \* the most recent calls, oldest first
    h2type,             \* SpecType: the H2Type under test
    resolve_offset,     \* SpecType: the ResolveOffset of the calls
    generic_number,     \* SpecFormat: the GenericNumber handed to render
    generic_formatter,  \* SpecFormat: the formatter render is called on
    aes_key,            \* SpecSettings: the key handed to AESSettings::new
    aes_iv,             \* SpecSettings: the Option<Vec<u8>> iv handed to it
    last_result         \* SpecType, SpecFormat, SpecSettings: the last call
                        \* and what it returned

\* what the calls on types, formatters and settings work on
valueVars == <<h2type, resolve_offset, generic_number, generic_formatter,
               aes_key, aes_iv, last_result>>

vars == <<project, action, entries, current, buffer, cloned, created, trail,
          valueVars>>

----------------------------------------------------------------------------
(* Option<T> and SimpleResult<T> *)

None == <<>>

Some(x) == <<x>>

IsSome(o) == Len(o) = 1

IsNone(o) == Len(o) = 0

Unwrap(o) == o[1]

----------------------------------------------------------------------------
(* Bounds of the model *)

\* no type, formatter or settings call has been set up
NoValues ==
    /\ h2type = <<>>
    /\ resolve_offset = <<>>
    /\ generic_number = <<>>
    /\ generic_formatter = <<>>
    /\ aes_key = <<>>
    /\ aes_iv = <<>>
    /\ last_result = <<>>

\* how many of the latest record calls the trail keeps; it starts afresh
\* at every do
MaxTrail == 3

\* how many of the latest direct apply / undo calls the trail keeps
MaxCalls == 2

\* deepest transformation stack the model grows
MaxStack == 2

\* the trail t with the call e added, cut to its latest n calls
Push(t, e, n) == IF Len(t) < n THEN Append(t, e) ELSE Append(Tail(t), e)

Last(t) == t[Len(t)]

\* project names handed to ProjectRename; "" is the blank name
ProjectNames == {"", "newname"}

\* the name the project is created with
InitialName == "name"

\* buffer names handed to the buffer actions
BufferNames == {"b1"}

\* the project's HashMap<H2BufferName, H2Buffer>, as name -> Option<H2Buffer>
NoBuffers == [n \in BufferNames |-> None]

\* H2Project::new(name, version): no buffers yet
NewProject(n) == [name |-> n, buffers |-> NoBuffers]

----------------------------------------------------------------------------
(* action/project_rename.rs *)

ActionProjectRenameForward(n) == [new_name |-> n]

ActionProjectRenameBackward(n) == [old_name |-> n]

\* ActionProjectRename::new, wrapped by Action::project_rename
Action_project_rename(n) ==
    [kind |-> "ProjectRename",
     forward |-> Some(ActionProjectRenameForward(n)),
     backward |-> None]

\* The outcome of a Command call: the command and the target as the call
\* left them, and whether it returned Ok
Outcome(isOk, e, a, p) == [ok |-> isOk, err |-> e, a |-> a, p |-> p]

\* apply as it would be with the forward slot borrowed and never cleared
ActionProjectRename_apply_keeps_forward(a, p) ==
    IF IsNone(a.forward)
    THEN Outcome(FALSE, "Failed to apply: missing context", a, p)
    ELSE Outcome(TRUE, "",
                 [a EXCEPT !.backward =
                     Some(ActionProjectRenameBackward(p.name))],
                 [p EXCEPT !.name = Unwrap(a.forward).new_name])

\* ActionProjectRename::apply: self.forward.take(), then mem::replace of
\* project.name, then self.backward = Some(old_name)
ActionProjectRename_apply(a, p) ==
    IF IsNone(a.forward)
    THEN Outcome(FALSE, "Failed to apply: missing context", a, p)
    ELSE LET forward == Unwrap(a.forward)
             taken == [a EXCEPT !.forward = None]
             old_name == p.name
         IN Outcome(TRUE, "",
                    [taken EXCEPT !.backward =
                        Some(ActionProjectRenameBackward(old_name))],
                    [p EXCEPT !.name = forward.new_name])

\* undo as it would be with the forward slot refilled from the name it
\* restores instead of the name it replaces
ActionProjectRename_undo_wrong_forward(a, p) ==
    IF IsNone(a.backward)
    THEN Outcome(FALSE, "Failed to undo: missing context", a, p)
    ELSE Outcome(TRUE, "",
                 [a EXCEPT !.backward = None,
                           !.forward = Some(ActionProjectRenameForward(
                                            Unwrap(a.backward).old_name))],
                 [p EXCEPT !.name = Unwrap(a.backward).old_name])

\* ActionProjectRename::undo: self.backward.take(), then mem::replace of
\* project.name, then self.forward = Some(new_name)
ActionProjectRename_undo(a, p) ==
    IF IsNone(a.backward)
    THEN Outcome(FALSE, "Failed to undo: missing context", a, p)
    ELSE LET backward == Unwrap(a.backward)
             taken == [a EXCEPT !.backward = None]
             new_name == p.name
         IN Outcome(TRUE, "",
                    [taken EXCEPT !.forward =
                        Some(ActionProjectRenameForward(new_name))],
                    [p EXCEPT !.name = backward.old_name])

----------------------------------------------------------------------------
(* actions.bak/project_rename.rs: the earlier ActionProjectRename, which   *)
(* borrows its slots instead of taking them and checks the new name        *)

\* impl From<&str> for ActionProjectRename
ActionProjectRenameBak_from(n) ==
    [kind |-> "ProjectRenameBak",
     forward |-> Some(ActionProjectRenameForward(n)),
     backward |-> None]

\* apply as it would be with the blank check after the rename
ActionProjectRenameBak_apply_checks_late(a, p) ==
    IF IsNone(a.forward)
    THEN Outcome(FALSE, "Failed to apply: missing context", a, p)
    ELSE LET forward == Unwrap(a.forward)
             renamed == [p EXCEPT !.name = forward.new_name]
         IN IF Len(forward.new_name) = 0
            THEN Outcome(FALSE, "Project name can't be blank", a, renamed)
            ELSE Outcome(TRUE, "",
                         [a EXCEPT !.forward = None,
                                   !.backward = Some(
                                       ActionProjectRenameBackward(p.name))],
                         renamed)

\* ActionProjectRename::apply of actions.bak
ActionProjectRenameBak_apply(a, p) ==
    IF IsNone(a.forward)
    THEN Outcome(FALSE, "Failed to apply: missing context", a, p)
    ELSE LET forward == Unwrap(a.forward)
         IN IF Len(forward.new_name) = 0
            THEN Outcome(FALSE, "Project name can't be blank", a, p)
            ELSE LET old_name == p.name
                     withBackward == [a EXCEPT !.backward =
                         Some(ActionProjectRenameBackward(old_name))]
                 IN Outcome(TRUE, "",
                            [withBackward EXCEPT !.forward = None],
                            [p EXCEPT !.name = forward.new_name])

\* ActionProjectRename::undo of actions.bak
ActionProjectRenameBak_undo(a, p) ==
    IF IsNone(a.backward)
    THEN Outcome(FALSE, "Failed to undo: missing context", a, p)
    ELSE LET backward == Unwrap(a.backward)
             new_name == p.name
             withForward == [a EXCEPT !.forward =
                 Some(ActionProjectRenameForward(new_name))]
         IN Outcome(TRUE, "",
                    [withForward EXCEPT !.backward = None],
                    [p EXCEPT !.name = backward.old_name])

----------------------------------------------------------------------------
(* Bytes *)

RECURSIVE BitXor(_, _, _)
BitXor(a, b, n) ==
    IF n = 0 THEN 0
    ELSE (((a % 2) + (b % 2)) % 2) + (2 * BitXor(a \div 2, b \div 2, n - 1))

\* u8 ^ u8
ByteXor(a, b) == BitXor(a, b, 8)

Zeros(n) == [i \in 1..n |-> 0]

\* v[from..to] of a Vec, 0-based and half-open like a Rust range
Slice(v, from, to) == [i \in 1..(to - from) |-> v[from + i]]

----------------------------------------------------------------------------
(* transformation/transform_aes.rs *)

\* the AES block and IV width in bytes: iv: Option<[u8; 16]>
AesBlockBytes == 16

Repeat(byte, n) == [i \in 1..n |-> byte]

\* b"AAAAAABAAAAAAAAA": 'A' is 65, 'B' is 66, the 'B' is the 7th byte
HardcodedKey128 == [i \in 1..16 |-> IF i = 7 THEN 66 ELSE 65]

\* b"AAAAAABAAAAAAAAAAAAAAAAA"
HardcodedKey192 == [i \in 1..24 |-> IF i = 7 THEN 66 ELSE 65]

\* b"AAAAAAABAAAAAAAAAAAAAAAAAAAAAAAA": here the 'B' is the 8th byte
HardcodedKey256 == [i \in 1..32 |-> IF i = 8 THEN 66 ELSE 65]

\* AESSettings::new(key, iv): the variant is chosen by key.len(); the bytes
\* stored are the literal of that arm
AESSettings_new(key, iv) ==
    CASE Len(key) = 16 ->
            [ok |-> TRUE, err |-> "",
             value |-> [key |-> [variant |-> "Bits128", bytes |-> HardcodedKey128],
                        iv |-> iv]]
      [] Len(key) = 24 ->
            [ok |-> TRUE, err |-> "",
             value |-> [key |-> [variant |-> "Bits192", bytes |-> HardcodedKey192],
                        iv |-> iv]]
      [] Len(key) = 32 ->
            [ok |-> TRUE, err |-> "",
             value |-> [key |-> [variant |-> "Bits256", bytes |-> HardcodedKey256],
                        iv |-> iv]]
      [] OTHER ->
            [ok |-> FALSE, err |-> "Invalid AES key length", value |-> None]

\* Stand-in for the AES block permutation of the aes crate, which is outside
\* the repository: a keyed bijection on blocks, byte j of the block xored
\* with byte j of the key.
AesBlockDecryptByte(k, c, j) == ByteXor(c[j], k[((j - 1) % Len(k)) + 1])

\* Cbc::decrypt: P_i = D_k(C_i) xor C_(i-1), with C_0 the iv
CbcDecrypt(k, iv, c) ==
    [j \in 1..Len(c) |->
        ByteXor(AesBlockDecryptByte(k, c, j),
                IF j <= AesBlockBytes THEN iv[j] ELSE c[j - AesBlockBytes])]

\* Pkcs7::unpad: the last byte n is the pad length, 1..block size, and the
\* last n bytes all equal n
Pkcs7UnpadOk(p) ==
    /\ Len(p) > 0
    /\ p[Len(p)] >= 1
    /\ p[Len(p)] <= AesBlockBytes
    /\ p[Len(p)] <= Len(p)
    /\ \A i \in (Len(p) - p[Len(p)] + 1)..Len(p) : p[i] = p[Len(p)]

\* TransformAES::transform: decrypt_vec under Cbc<Aes*, Pkcs7>; the three
\* arms differ only in the key width
TransformAES_transform(settings, data) ==
    LET iv == IF IsSome(settings.iv) THEN Unwrap(settings.iv)
              ELSE Zeros(AesBlockBytes)
        plain == CbcDecrypt(settings.key.bytes, iv, data)
    IN IF (Len(data) % AesBlockBytes) # 0 \/ ~Pkcs7UnpadOk(plain)
       THEN [ok |-> FALSE, err |-> "Error decrypting buffer", value |-> <<>>]
       ELSE [ok |-> TRUE, err |-> "",
             value |-> SubSeq(plain, 1, Len(plain) - plain[Len(plain)])]

\* TransformAES::untransform
TransformAES_untransform(settings, data) ==
    [ok |-> FALSE, err |-> "Not implemented yet!", value |-> <<>>]

----------------------------------------------------------------------------
(* The other transformations the buffer is handed.  Their code is outside   *)
(* src/; XorByConstant follows the Transform contract: xor with a non-empty *)
(* key is its own inverse.                                                  *)

XorByConstant_transform(c, data) ==
    [ok |-> TRUE, err |-> "", value |-> [i \in 1..Len(data) |-> ByteXor(data[i], c)]]

XorByConstant_untransform(c, data) == XorByConstant_transform(c, data)

\* H2Transformation: a tagged variant, [kind, xor, aes]
Transformation_XorByConstant(c) ==
    [kind |-> "XorByConstant", xor |-> c, aes |-> None]

Transformation_FromAES(settings) ==
    [kind |-> "FromAES", xor |-> 0, aes |-> Some(settings)]

\* H2Transformation::transform dispatches on the variant
Transformation_transform(t, data) ==
    IF t.kind = "FromAES"
    THEN TransformAES_transform(Unwrap(t.aes), data)
    ELSE XorByConstant_transform(t.xor, data)

\* H2Transformation::untransform dispatches on the variant
Transformation_untransform(t, data) ==
    IF t.kind = "FromAES"
    THEN TransformAES_untransform(Unwrap(t.aes), data)
    ELSE XorByConstant_untransform(t.xor, data)

----------------------------------------------------------------------------
(* h2project/h2buffer.rs *)

\* What a &mut self method of H2Buffer leaves: the buffer after the call and
\* the SimpleResult it returned
BufferOk(b, v) == [ok |-> TRUE, err |-> "", b |-> b, value |-> v]

BufferErr(b, e) == [ok |-> FALSE, err |-> e, b |-> b, value |-> None]

\* new as it would be without the check on the length
H2Buffer_new_accepts_empty(data, base_address) ==
    [ok |-> TRUE, err |-> "",
     value |-> Some([data |-> data,
                     base_address |-> base_address,
                     layers |-> {},
                     transformations |-> <<>>])]

\* H2Buffer::new
H2Buffer_new(data, base_address) ==
    IF Len(data) = 0
    THEN [ok |-> FALSE, err |-> "Can't create a buffer of zero length",
          value |-> None]
    ELSE [ok |-> TRUE, err |-> "",
          value |-> Some([data |-> data,
                          base_address |-> base_address,
                          layers |-> {},
                          transformations |-> <<>>])]

\* H2Buffer::len
H2Buffer_len(b) == Len(b.data)

\* H2Buffer::clone_shallow; new_base_address is an Option
H2Buffer_clone_shallow(b, new_base_address) ==
    LET made == H2Buffer_new(b.data,
                    IF IsSome(new_base_address) THEN Unwrap(new_base_address)
                    ELSE b.base_address)
    IN IF ~made.ok THEN made
       ELSE [made EXCEPT !.value =
                Some([Unwrap(made.value) EXCEPT
                        !.transformations = b.transformations])]

\* clone_partial as it would be with the source's base address for the new
\* buffer whatever the range
H2Buffer_clone_partial_keeps_base(b, start, end, new_base_address) ==
    IF end > Len(b.data)
    THEN [ok |-> FALSE, err |-> "Editing data into buffer is too long",
          value |-> None]
    ELSE LET base_address == IF IsSome(new_base_address)
                             THEN Unwrap(new_base_address)
                             ELSE b.base_address
         IN IF start > end
            THEN [ok |-> FALSE, err |-> "panic: slice index", value |-> None]
            ELSE H2Buffer_new(Slice(b.data, start, end), base_address)

\* H2Buffer::clone_partial over the range start..end; slicing with
\* start > end panics
H2Buffer_clone_partial(b, start, end, new_base_address) ==
    IF end > Len(b.data)
    THEN [ok |-> FALSE, err |-> "Editing data into buffer is too long",
          value |-> None]
    ELSE LET base_address == IF IsSome(new_base_address)
                             THEN Unwrap(new_base_address)
                             ELSE b.base_address + start
         IN IF start > end
            THEN [ok |-> FALSE, err |-> "panic: slice index", value |-> None]
            ELSE H2Buffer_new(Slice(b.data, start, end), base_address)

\* is_populated as it would be if it never looked at the layers
H2Buffer_is_populated_never(b) == FALSE

\* H2Buffer::is_populated
H2Buffer_is_populated(b) == Cardinality(b.layers) > 0

\* transform as it would be with the transformation logged before the data
\* is transformed
H2Buffer_transform_pushes_first(b, transformation) ==
    IF H2Buffer_is_populated(b) THEN BufferErr(b, "Buffer contains data")
    ELSE LET pushed == [b EXCEPT
                          !.transformations = Append(@, transformation)]
             new_data == Transformation_transform(transformation, b.data)
         IN IF ~new_data.ok THEN BufferErr(pushed, new_data.err)
            ELSE BufferOk([pushed EXCEPT !.data = new_data.value], b.data)

\* H2Buffer::transform
H2Buffer_transform(b, transformation) ==
    IF H2Buffer_is_populated(b) THEN BufferErr(b, "Buffer contains data")
    ELSE LET new_data == Transformation_transform(transformation, b.data)
         IN IF ~new_data.ok THEN BufferErr(b, new_data.err)
            ELSE BufferOk(
                    [b EXCEPT !.transformations = Append(@, transformation),
                              !.data = new_data.value],
                    b.data)

\* transform_undo as it would be reading the last transformation without
\* popping it
H2Buffer_transform_undo_keeps_stack(b, original_data) ==
    IF H2Buffer_is_populated(b) THEN BufferErr(b, "Buffer contains data")
    ELSE IF Len(b.transformations) = 0
         THEN BufferErr(b, "No transformations in the stack")
         ELSE BufferOk([b EXCEPT !.data = original_data],
                       b.transformations[Len(b.transformations)])

\* transform_undo, were the data replaced before the stack is popped and
\* checked
H2Buffer_transform_undo_data_first(b, original_data) ==
    IF H2Buffer_is_populated(b) THEN BufferErr(b, "Buffer contains data")
    ELSE IF Len(b.transformations) = 0
         THEN BufferErr([b EXCEPT !.data = original_data],
                        "No transformations in the stack")
         ELSE BufferOk(
                 [b EXCEPT !.transformations = SubSeq(@, 1, Len(@) - 1),
                           !.data = original_data],
                 b.transformations[Len(b.transformations)])

\* H2Buffer::transform_undo
H2Buffer_transform_undo(b, original_data) ==
    IF H2Buffer_is_populated(b) THEN BufferErr(b, "Buffer contains data")
    ELSE IF Len(b.transformations) = 0
         THEN BufferErr(b, "No transformations in the stack")
         ELSE BufferOk(
                 [b EXCEPT !.transformations = SubSeq(@, 1, Len(@) - 1),
                           !.data = original_data],
                 b.transformations[Len(b.transformations)])

\* untransform as it would be with the last element popped before the
\* attempt to untransform
H2Buffer_untransform_pops_first(b) ==
    IF H2Buffer_is_populated(b) THEN BufferErr(b, "Buffer contains data")
    ELSE IF Len(b.transformations) = 0
         THEN BufferErr(b, "Buffer has no transformations")
         ELSE LET transformation == b.transformations[Len(b.transformations)]
                  popped == [b EXCEPT
                               !.transformations = SubSeq(@, 1, Len(@) - 1)]
                  new_data == Transformation_untransform(transformation, b.data)
              IN IF ~new_data.ok THEN BufferErr(popped, new_data.err)
                 ELSE BufferOk([popped EXCEPT !.data = new_data.value],
                               <<b.data, transformation>>)

\* H2Buffer::untransform
H2Buffer_untransform(b) ==
    IF H2Buffer_is_populated(b) THEN BufferErr(b, "Buffer contains data")
    ELSE IF Len(b.transformations) = 0
         THEN BufferErr(b, "Buffer has no transformations")
         ELSE LET transformation == b.transformations[Len(b.transformations)]
                  new_data == Transformation_untransform(transformation, b.data)
              IN IF ~new_data.ok THEN BufferErr(b, new_data.err)
                 ELSE BufferOk(
                         [b EXCEPT
                            !.transformations = SubSeq(@, 1, Len(@) - 1),
                            !.data = new_data.value],
                         <<b.data, transformation>>)

\* H2Buffer::untransform_undo
H2Buffer_untransform_undo(b, original_data, transformation) ==
    IF H2Buffer_is_populated(b) THEN BufferErr(b, "Buffer contains data")
    ELSE BufferOk(
            [b EXCEPT !.data = original_data,
                      !.transformations = Append(@, transformation)],
            None)

\* Vec::splice(offset..offset+len(data), data) on buffer_data
Splice(buffer_data, offset, data) ==
    [i \in 1..Len(buffer_data) |->
        IF i > offset /\ i <= offset + Len(data)
        THEN data[i - offset]
        ELSE buffer_data[i]]

\* edit as it would be with the sanity check refusing the last byte
H2Buffer_edit_stops_short(b, data, offset) ==
    IF offset + Len(data) >= Len(b.data)
    THEN BufferErr(b, "Editing data into buffer is too long")
    ELSE IF Len(data) = 0
         THEN BufferErr(b, "Can't edit zero bytes")
         ELSE BufferOk([b EXCEPT !.data = Splice(b.data, offset, data)],
                       Slice(b.data, offset, offset + Len(data)))

\* H2Buffer::edit
H2Buffer_edit(b, data, offset) ==
    IF offset + Len(data) > Len(b.data)
    THEN BufferErr(b, "Editing data into buffer is too long")
    ELSE IF Len(data) = 0
         THEN BufferErr(b, "Can't edit zero bytes")
         ELSE BufferOk([b EXCEPT !.data = Splice(b.data, offset, data)],
                       Slice(b.data, offset, offset + Len(data)))

\* H2Buffer::rebase
H2Buffer_rebase(b, new_base_address) ==
    BufferOk([b EXCEPT !.base_address = new_base_address], b.base_address)

----------------------------------------------------------------------------
(* The actions whose files are outside src/ (action/null.rs,                *)
(* action/buffer_create_empty.rs, action/buffer_create_from_bytes.rs,       *)
(* action/buffer_delete.rs) and the H2Project methods they call, after the  *)
(* action contract: apply consumes forward and produces backward, undo      *)
(* consumes backward and reproduces forward, a failed call changes nothing. *)

\* H2Project::buffer_insert: fails on a name collision
H2Project_buffer_insert(p, n, b) ==
    IF IsSome(p.buffers[n])
    THEN [ok |-> FALSE, err |-> "Buffer already exists", p |-> p]
    ELSE [ok |-> TRUE, err |-> "", p |-> [p EXCEPT !.buffers[n] = Some(b)]]

\* H2Project::buffer_remove: fails on a missing or a populated buffer
H2Project_buffer_remove(p, n) ==
    IF IsNone(p.buffers[n])
    THEN [ok |-> FALSE, err |-> "Buffer not found", p |-> p, value |-> None]
    ELSE IF H2Buffer_is_populated(Unwrap(p.buffers[n]))
         THEN [ok |-> FALSE, err |-> "Buffer has data in it", p |-> p,
               value |-> None]
         ELSE [ok |-> TRUE, err |-> "",
               p |-> [p EXCEPT !.buffers[n] = None],
               value |-> p.buffers[n]]

NullAction_new ==
    [kind |-> "Null", forward |-> Some([null |-> TRUE]), backward |-> None]

NullAction_apply(a, p) ==
    IF IsNone(a.forward)
    THEN Outcome(FALSE, "Failed to apply: missing context", a, p)
    ELSE Outcome(TRUE, "",
                 [a EXCEPT !.forward = None, !.backward = Some([null |-> TRUE])],
                 p)

NullAction_undo(a, p) ==
    IF IsNone(a.backward)
    THEN Outcome(FALSE, "Failed to undo: missing context", a, p)
    ELSE Outcome(TRUE, "",
                 [a EXCEPT !.backward = None, !.forward = Some([null |-> TRUE])],
                 p)

\* Action::buffer_create_empty
Action_buffer_create_empty(n, size, base_address) ==
    [kind |-> "BufferCreateEmpty",
     forward |-> Some([name |-> n, size |-> size, base_address |-> base_address]),
     backward |-> None]

ActionBufferCreateEmpty_apply(a, p) ==
    IF IsNone(a.forward)
    THEN Outcome(FALSE, "Failed to apply: missing context", a, p)
    ELSE LET forward == Unwrap(a.forward)
             made == H2Buffer_new(Zeros(forward.size), forward.base_address)
         IN IF ~made.ok THEN Outcome(FALSE, made.err, a, p)
            ELSE LET ins == H2Project_buffer_insert(p, forward.name,
                                                    Unwrap(made.value))
                 IN IF ~ins.ok THEN Outcome(FALSE, ins.err, a, p)
                    ELSE Outcome(TRUE, "",
                            [a EXCEPT !.forward = None,
                                      !.backward = Some([name |-> forward.name])],
                            ins.p)

ActionBufferCreateEmpty_undo(a, p) ==
    IF IsNone(a.backward)
    THEN Outcome(FALSE, "Failed to undo: missing context", a, p)
    ELSE LET backward == Unwrap(a.backward)
             rem == H2Project_buffer_remove(p, backward.name)
         IN IF ~rem.ok THEN Outcome(FALSE, rem.err, a, p)
            ELSE Outcome(TRUE, "",
                    [a EXCEPT
                       !.backward = None,
                       !.forward = Some(
                           [name |-> backward.name,
                            size |-> H2Buffer_len(Unwrap(rem.value)),
                            base_address |-> Unwrap(rem.value).base_address])],
                    rem.p)

\* Action::buffer_create_from_bytes
Action_buffer_create_from_bytes(n, data, base_address) ==
    [kind |-> "BufferCreateFromBytes",
     forward |-> Some([name |-> n, data |-> data, base_address |-> base_address]),
     backward |-> None]

ActionBufferCreateFromBytes_apply(a, p) ==
    IF IsNone(a.forward)
    THEN Outcome(FALSE, "Failed to apply: missing context", a, p)
    ELSE LET forward == Unwrap(a.forward)
             made == H2Buffer_new(forward.data, forward.base_address)
         IN IF ~made.ok THEN Outcome(FALSE, made.err, a, p)
            ELSE LET ins == H2Project_buffer_insert(p, forward.name,
                                                    Unwrap(made.value))
                 IN IF ~ins.ok THEN Outcome(FALSE, ins.err, a, p)
                    ELSE Outcome(TRUE, "",
                            [a EXCEPT !.forward = None,
                                      !.backward = Some([name |-> forward.name])],
                            ins.p)

ActionBufferCreateFromBytes_undo(a, p) ==
    IF IsNone(a.backward)
    THEN Outcome(FALSE, "Failed to undo: missing context", a, p)
    ELSE LET backward == Unwrap(a.backward)
             rem == H2Project_buffer_remove(p, backward.name)
         IN IF ~rem.ok THEN Outcome(FALSE, rem.err, a, p)
            ELSE Outcome(TRUE, "",
                    [a EXCEPT
                       !.backward = None,
                       !.forward = Some(
                           [name |-> backward.name,
                            data |-> Unwrap(rem.value).data,
                            base_address |-> Unwrap(rem.value).base_address])],
                    rem.p)

\* Action::buffer_delete
Action_buffer_delete(n) ==
    [kind |-> "BufferDelete",
     forward |-> Some([name |-> n]),
     backward |-> None]

ActionBufferDelete_apply(a, p) ==
    IF IsNone(a.forward)
    THEN Outcome(FALSE, "Failed to apply: missing context", a, p)
    ELSE LET forward == Unwrap(a.forward)
             rem == H2Project_buffer_remove(p, forward.name)
         IN IF ~rem.ok THEN Outcome(FALSE, rem.err, a, p)
            ELSE Outcome(TRUE, "",
                    [a EXCEPT
                       !.forward = None,
                       !.backward = Some([name |-> forward.name,
                                          buffer |-> Unwrap(rem.value)])],
                    rem.p)

ActionBufferDelete_undo(a, p) ==
    IF IsNone(a.backward)
    THEN Outcome(FALSE, "Failed to undo: missing context", a, p)
    ELSE LET backward == Unwrap(a.backward)
             ins == H2Project_buffer_insert(p, backward.name, backward.buffer)
         IN IF ~ins.ok THEN Outcome(FALSE, ins.err, a, p)
            ELSE Outcome(TRUE, "",
                    [a EXCEPT !.backward = None,
                              !.forward = Some([name |-> backward.name])],
                    ins.p)

----------------------------------------------------------------------------
(* action/mod.rs: impl Command for Action *)

\* Action::apply: match self { ... => a.apply(project) }
Action_apply(a, p) ==
    CASE a.kind = "Null" -> NullAction_apply(a, p)
      [] a.kind = "ProjectRename" -> ActionProjectRename_apply(a, p)
      [] a.kind = "BufferCreateEmpty" -> ActionBufferCreateEmpty_apply(a, p)
      [] a.kind = "BufferCreateFromBytes" ->
            ActionBufferCreateFromBytes_apply(a, p)
      [] a.kind = "BufferDelete" -> ActionBufferDelete_apply(a, p)

\* Action::undo: match self { ... => a.undo(project) }
Action_undo(a, p) ==
    CASE a.kind = "Null" -> NullAction_undo(a, p)
      [] a.kind = "ProjectRename" -> ActionProjectRename_undo(a, p)
      [] a.kind = "BufferCreateEmpty" -> ActionBufferCreateEmpty_undo(a, p)
      [] a.kind = "BufferCreateFromBytes" ->
            ActionBufferCreateFromBytes_undo(a, p)
      [] a.kind = "BufferDelete" -> ActionBufferDelete_undo(a, p)

\* Command::apply on either command type: the Action enum, or the
\* ActionProjectRename of actions.bak that its tests put in a Record directly
Command_apply(a, p) ==
    IF a.kind = "ProjectRenameBak" THEN ActionProjectRenameBak_apply(a, p)
    ELSE Action_apply(a, p)

\* Command::undo on either command type
Command_undo(a, p) ==
    IF a.kind = "ProjectRenameBak" THEN ActionProjectRenameBak_undo(a, p)
    ELSE Action_undo(a, p)

----------------------------------------------------------------------------
(* SpecAction: one action object; the caller constructs it and calls apply  *)
(* and undo on it in any order.                                             *)

\* buffer sizes handed to Action::buffer_create_empty
SizeInputs == {0, 2}

\* base addresses handed to the buffer actions
BaseInputs == {0, 1}

\* byte vectors handed to Action::buffer_create_from_bytes
BytesInputs == {<<>>, <<7>>}

\* every action a caller constructs
ActionInputs ==
       {Action_project_rename(n) : n \in ProjectNames}
    \cup {ActionProjectRenameBak_from(n) : n \in ProjectNames}
    \cup {NullAction_new}
    \cup {Action_buffer_create_empty(n, z, b) :
            n \in BufferNames, z \in SizeInputs, b \in BaseInputs}
    \cup {Action_buffer_create_from_bytes(n, d, 0) :
            n \in BufferNames, d \in BytesInputs}
    \cup {Action_buffer_delete(n) : n \in BufferNames}

InitAction ==
    /\ project = NewProject(InitialName)
    /\ action = None
    /\ entries = <<>>
    /\ current = 0
    /\ buffer = None
    /\ cloned = None
    /\ created = None
    /\ trail = <<>>
    /\ NoValues

\* the record of one direct call: what was called, what it returned, and
\* the action and the project as they were before it
Call(op, r, a, p) ==
    [op |-> op, ok |-> r.ok, err |-> r.err,
     before |-> [action |-> a, project |-> p]]

\* let mut a = Action::...(...)
ActionNew(a) ==
    /\ action' = Some(a)
    /\ trail' = <<>>
    /\ UNCHANGED <<project, entries, current, buffer, cloned, created, valueVars>>

\* a.apply(&mut project)
ActionApply ==
    /\ IsSome(action)
    /\ LET r == Command_apply(Unwrap(action), project)
       IN /\ action' = Some(r.a)
          /\ project' = r.p
          /\ trail' = Push(trail, Call("apply", r, Unwrap(action), project),
                           MaxCalls)
    /\ UNCHANGED <<entries, current, buffer, cloned, created, valueVars>>

\* a.undo(&mut project)
ActionUndo ==
    /\ IsSome(action)
    /\ LET r == Command_undo(Unwrap(action), project)
       IN /\ action' = Some(r.a)
          /\ project' = r.p
          /\ trail' = Push(trail, Call("undo", r, Unwrap(action), project),
                           MaxCalls)
    /\ UNCHANGED <<entries, current, buffer, cloned, created, valueVars>>

\* project.buffer_mut(n).layers.insert(l, layer): the buffer n of the
\* project gets populated
ProjectLayerInsert(n, l) ==
    /\ IsSome(action)
    /\ IsSome(project.buffers[n])
    /\ project' = [project EXCEPT !.buffers[n] =
                       Some([Unwrap(@) EXCEPT !.layers = @ \cup {l}])]
    /\ trail' = Push(trail,
                     Call("layer", [ok |-> TRUE, err |-> ""],
                          Unwrap(action), project),
                     MaxCalls)
    /\ UNCHANGED <<action, entries, current, buffer, cloned, created, valueVars>>

\* project.buffer_mut(n).transform(t)
ProjectBufferTransform(n, t) ==
    /\ IsSome(action)
    /\ IsSome(project.buffers[n])
    /\ Len(Unwrap(project.buffers[n]).transformations) < MaxStack
    /\ LET r == H2Buffer_transform(Unwrap(project.buffers[n]), t)
       IN /\ project' = [project EXCEPT !.buffers[n] = Some(r.b)]
          /\ trail' = Push(trail, Call("transform", r, Unwrap(action), project),
                           MaxCalls)
    /\ UNCHANGED <<action, entries, current, buffer, cloned, created, valueVars>>

NextAction ==
    \/ \E a \in ActionInputs : ActionNew(a)
    \/ ActionApply
    \/ ActionUndo
    \/ \E n \in BufferNames : ProjectLayerInsert(n, "layer")
    \/ \E n \in BufferNames :
          ProjectBufferTransform(n, Transformation_XorByConstant(1))

SpecAction == InitAction /\ [][NextAction]_vars

----------------------------------------------------------------------------
(* The undo/redo record the tests drive the actions through (redo::Record,  *)
(* a crate outside the repository), after the log discipline: a linear      *)
(* sequence with a cursor; do applies the action and, when that succeeded,  *)
(* drops the redoable tail and appends it; undo and redo move the cursor    *)
(* over the entry they call.  The command gets the target and itself by     *)
(* &mut, so whatever a failing call did to either stays done: the record    *)
(* itself only keeps its cursor and its entries' order.                     *)

\* a record value: the target it owns, its entries and its cursor
Rec(t, es, c) == [target |-> t, entries |-> es, current |-> c]

\* what a record call leaves: the record after it and what it returned;
\* called is FALSE when there was nothing to undo or redo
RecOutcome(rec, called, isOk, e) ==
    [rec |-> rec, called |-> called, ok |-> isOk, err |-> e]

\* Record::new(target)
Record_new(t) == Rec(t, <<>>, 0)

\* do as it would be with the redoable tail kept
Record_apply_keeps_tail(rec, a) ==
    LET r == Command_apply(a, rec.target)
    IN IF ~r.ok
       THEN RecOutcome(Rec(r.p, rec.entries, rec.current), TRUE, FALSE, r.err)
       ELSE RecOutcome(Rec(r.p, Append(rec.entries, r.a), rec.current + 1),
                       TRUE, TRUE, "")

\* Record::apply(command)
Record_apply(rec, a) ==
    LET r == Command_apply(a, rec.target)
    IN IF ~r.ok
       THEN RecOutcome(Rec(r.p, rec.entries, rec.current), TRUE, FALSE, r.err)
       ELSE RecOutcome(
               Rec(r.p,
                   Append(SubSeq(rec.entries, 1, rec.current), r.a),
                   rec.current + 1),
               TRUE, TRUE, "")

\* Record::undo()
Record_undo(rec) ==
    IF rec.current = 0 THEN RecOutcome(rec, FALSE, TRUE, "")
    ELSE LET r == Command_undo(rec.entries[rec.current], rec.target)
             called == [rec.entries EXCEPT ![rec.current] = r.a]
         IN IF ~r.ok
            THEN RecOutcome(Rec(r.p, called, rec.current), TRUE, FALSE, r.err)
            ELSE RecOutcome(Rec(r.p, called, rec.current - 1), TRUE, TRUE, "")

\* Record::redo()
Record_redo(rec) ==
    IF rec.current = Len(rec.entries) THEN RecOutcome(rec, FALSE, TRUE, "")
    ELSE LET r == Command_apply(rec.entries[rec.current + 1], rec.target)
             called == [rec.entries EXCEPT ![rec.current + 1] = r.a]
         IN IF ~r.ok
            THEN RecOutcome(Rec(r.p, called, rec.current), TRUE, FALSE, r.err)
            ELSE RecOutcome(Rec(r.p, called, rec.current + 1), TRUE, TRUE, "")

----------------------------------------------------------------------------
(* Spec: a record over a project, driven by do / undo / redo *)

\* longest log the model grows
MaxLog == 3

\* the actions a caller hands to do
DoInputs ==
       {Action_project_rename(n) : n \in ProjectNames}
    \cup {ActionProjectRenameBak_from(n) : n \in ProjectNames}
    \cup {NullAction_new}
    \cup {Action_buffer_create_empty(n, z, 0) :
            n \in BufferNames, z \in SizeInputs}
    \cup {Action_buffer_delete(n) : n \in BufferNames}

\* the record as the state holds it
TheRecord == Rec(project, entries, current)

Init ==
    /\ project = NewProject(InitialName)
    /\ action = None
    /\ entries = <<>>
    /\ current = 0
    /\ buffer = None
    /\ cloned = None
    /\ created = None
    /\ trail = <<>>
    /\ NoValues

\* the record of one record call: what was called and what it returned;
\* cut is the number of redoable entries a do dropped
LogCall(op, r, cut) == [op |-> op, ok |-> r.ok, err |-> r.err, cut |-> cut]

\* the state takes the record a call left
Becomes(rec) ==
    /\ project' = rec.target
    /\ entries' = rec.entries
    /\ current' = rec.current

\* record.apply(a)
Do(a) ==
    /\ current < MaxLog
    /\ LET r == Record_apply(TheRecord, a)
       IN /\ Becomes(r.rec)
          /\ trail' = <<LogCall("do", r,
                                 IF r.ok THEN Len(entries) - current ELSE 0)>>
    /\ UNCHANGED <<action, buffer, cloned, created, valueVars>>

\* record.undo(); with nothing to undo the call returns at once
Undo ==
    /\ current > 0
    /\ LET r == Record_undo(TheRecord)
       IN /\ Becomes(r.rec)
          /\ trail' = Push(trail, LogCall("undo", r, 0), MaxTrail)
    /\ UNCHANGED <<action, buffer, cloned, created, valueVars>>

\* record.redo(); with nothing to redo the call returns at once
Redo ==
    /\ current < Len(entries)
    /\ LET r == Record_redo(TheRecord)
       IN /\ Becomes(r.rec)
          /\ trail' = Push(trail, LogCall("redo", r, 0), MaxTrail)
    /\ UNCHANGED <<action, buffer, cloned, created, valueVars>>

Next ==
    \/ \E a \in DoInputs : Do(a)
    \/ Undo
    \/ Redo

Spec == Init /\ [][Next]_vars

----------------------------------------------------------------------------
(* SpecBuffer: one H2Buffer; the caller creates it and calls its methods    *)
(* in any order, with any arguments.                                        *)

\* one AES block that decrypts, under the 128-bit key and a zero iv, to
\* sixteen bytes of padding: the encryption of the empty message
PaddingOnlyBlock == [j \in 1..16 |-> ByteXor(16, HardcodedKey128[j])]

\* one AES block that decrypts to "Hi" and fourteen bytes of padding
PaddedBlock ==
    [j \in 1..16 |->
        ByteXor(IF j = 1 THEN 72 ELSE IF j = 2 THEN 105 ELSE 14,
                HardcodedKey128[j])]

\* byte vectors handed to H2Buffer::new
DataInputs == {<<>>, <<1>>, <<1, 2>>, PaddingOnlyBlock, PaddedBlock}

\* byte vectors handed to transform_undo and untransform_undo
OriginalDataInputs == {<<>>, <<1>>}

\* byte vectors and offsets handed to edit
EditInputs == {<<>>, <<9>>}

OffsetInputs == {0, 1, 2}

\* Option<usize> base addresses handed to the clone methods
OptionalBaseInputs == {None, Some(1)}

\* the AES settings a caller builds from a 16-byte key and no iv
SettingsInput == AESSettings_new(Repeat(65, 16), None).value

\* transformations handed to transform and untransform_undo
TransformationInputs ==
    {Transformation_XorByConstant(1), Transformation_FromAES(SettingsInput)}

\* layer names
LayerNames == {"layer"}

InitBuffer ==
    /\ project = NewProject(InitialName)
    /\ action = None
    /\ entries = <<>>
    /\ current = 0
    /\ buffer = None
    /\ cloned = None
    /\ created = None
    /\ trail = <<>>
    /\ NoValues

\* the record of one buffer call: what was called and what it returned
BufferCall(op, r) == <<[op |-> op, ok |-> r.ok, err |-> r.err]>>

\* the calls that store bytes the caller hands them
CallerBytesOps == {"edit", "transform_undo", "untransform_undo"}

\* a &mut self call returned r: the buffer is as the call left it
BufferBecomes(op, r) ==
    /\ buffer' = Some(r.b)
    /\ cloned' = None
    /\ created' = IF r.ok /\ op \in CallerBytesOps
                  THEN Some([Unwrap(created) EXCEPT !.computed = FALSE])
                  ELSE created
    /\ trail' = BufferCall(op, r)
    /\ UNCHANGED <<project, action, entries, current, valueVars>>

\* let buffer = H2Buffer::new(data, base_address)?
BufferNew(data, base_address) ==
    /\ LET r == H2Buffer_new(data, base_address)
       IN /\ buffer' = IF r.ok THEN r.value ELSE buffer
          /\ created' = IF r.ok THEN Some([data |-> data, computed |-> TRUE])
                        ELSE created
          /\ trail' = BufferCall("new", r)
    /\ cloned' = None
    /\ UNCHANGED <<project, action, entries, current, valueVars>>

\* buffer.layers.insert(name, layer): the only way a buffer gets populated
LayerInsert(n) ==
    /\ IsSome(buffer)
    /\ buffer' = Some([Unwrap(buffer) EXCEPT !.layers = @ \cup {n}])
    /\ cloned' = None
    /\ trail' = <<[op |-> "layer", ok |-> TRUE, err |-> ""]>>
    /\ UNCHANGED <<project, action, entries, current, created, valueVars>>

BufferCloneShallow(new_base_address) ==
    /\ IsSome(buffer)
    /\ LET r == H2Buffer_clone_shallow(Unwrap(buffer), new_base_address)
       IN /\ cloned' = r.value
          /\ trail' = BufferCall("clone_shallow", r)
    /\ UNCHANGED <<project, action, entries, current, buffer, created, valueVars>>

BufferClonePartial(start, end, new_base_address) ==
    /\ IsSome(buffer)
    /\ LET r == H2Buffer_clone_partial(Unwrap(buffer), start, end,
                                       new_base_address)
       IN /\ cloned' = r.value
          /\ trail' = BufferCall("clone_partial", r)
    /\ UNCHANGED <<project, action, entries, current, buffer, created, valueVars>>

BufferTransform(t) ==
    /\ IsSome(buffer)
    /\ Len(Unwrap(buffer).transformations) < MaxStack
    /\ BufferBecomes("transform", H2Buffer_transform(Unwrap(buffer), t))

BufferTransformUndo(original_data) ==
    /\ IsSome(buffer)
    /\ BufferBecomes("transform_undo",
                     H2Buffer_transform_undo(Unwrap(buffer), original_data))

BufferUntransform ==
    /\ IsSome(buffer)
    /\ BufferBecomes("untransform", H2Buffer_untransform(Unwrap(buffer)))

BufferUntransformUndo(original_data, t) ==
    /\ IsSome(buffer)
    /\ Len(Unwrap(buffer).transformations) < MaxStack
    /\ BufferBecomes("untransform_undo",
                     H2Buffer_untransform_undo(Unwrap(buffer), original_data, t))

BufferEdit(data, offset) ==
    /\ IsSome(buffer)
    /\ BufferBecomes("edit", H2Buffer_edit(Unwrap(buffer), data, offset))

BufferRebase(new_base_address) ==
    /\ IsSome(buffer)
    /\ BufferBecomes("rebase", H2Buffer_rebase(Unwrap(buffer), new_base_address))

NextBuffer ==
    \/ \E d \in DataInputs, b \in BaseInputs : BufferNew(d, b)
    \/ \E n \in LayerNames : LayerInsert(n)
    \/ \E b \in OptionalBaseInputs : BufferCloneShallow(b)
    \/ \E start \in OffsetInputs, end \in OffsetInputs,
          b \in OptionalBaseInputs : BufferClonePartial(start, end, b)
    \/ \E t \in TransformationInputs : BufferTransform(t)
    \/ \E d \in OriginalDataInputs : BufferTransformUndo(d)
    \/ BufferUntransform
    \/ \E d \in OriginalDataInputs, t \in TransformationInputs :
          BufferUntransformUndo(d, t)
    \/ \E d \in EditInputs, o \in OffsetInputs : BufferEdit(d, o)
    \/ \E b \in BaseInputs : BufferRebase(b)

SpecBuffer == InitBuffer /\ [][NextBuffer]_vars

----------------------------------------------------------------------------
(* datatype/mod.rs: ResolveOffset, H2Type; strings are sequences of the     *)
(* code points of their characters                                          *)

Ok(v) == [ok |-> TRUE, err |-> "", value |-> v]

Err(e) == [ok |-> FALSE, err |-> e, value |-> <<>>]

\* ResolveOffset::Static(n)
ResolveOffset_Static(n) == [kind |-> "Static", position |-> n, data |-> <<>>]

\* ResolveOffset::Dynamic(Context::new(&data).at(n))
ResolveOffset_Dynamic(data, n) ==
    [kind |-> "Dynamic", position |-> n, data |-> data]

\* ResolveOffset::position
ResolveOffset_position(o) == o.position

\* ResolveOffset::at
ResolveOffset_at(o, n) == [o EXCEPT !.position = n]

\* Context::read_u8: the byte at the position, an error past the end
Context_read_u8(o) ==
    IF o.position < Len(o.data) THEN Ok(o.data[o.position + 1])
    ELSE Err("failed to fill whole buffer")

\* helpers::maybe_round_up: number rounded up to a multiple of the
\* alignment, when there is one
maybe_round_up(n, byte_alignment) ==
    IF IsNone(byte_alignment) THEN n
    ELSE LET a == Unwrap(byte_alignment)
         IN IF (n % a) = 0 THEN n ELSE n + (a - (n % a))

\* H2Type::new_aligned over H2Types::Character(Character::new())
H2Type_Character(byte_alignment) ==
    [field |-> [kind |-> "Character"], byte_alignment |-> byte_alignment]

\* H2Array::new, which takes every length
H2Array_new(length, field_type) ==
    [kind |-> "H2Array", field_type |-> field_type, length |-> length]

\* H2Type::new_aligned over H2Types::H2Array(a)
H2Type_H2Array(byte_alignment, a) ==
    [field |-> a, byte_alignment |-> byte_alignment]

\* "Character"
StrCharacter == <<67, 104, 97, 114, 97, 99, 116, 101, 114>>

\* "<invalid>"
StrInvalid == <<60, 105, 110, 118, 97, 108, 105, 100, 62>>

\* u64::to_string: the decimal digits of n
RECURSIVE ToDecimalString(_)
ToDecimalString(n) ==
    IF n < 10 THEN <<48 + n>>
    ELSE Append(ToDecimalString(n \div 10), 48 + (n % 10))

\* strings.join(", ")
RECURSIVE Join(_)
Join(strings) ==
    IF Len(strings) = 0 THEN <<>>
    ELSE IF Len(strings) = 1 THEN strings[1]
         ELSE strings[1] \o <<44, 32>> \o Join(Tail(strings))

\* Character::size
Character_size(o) == Ok(1)

\* Character::to_string, were the space not taken as printable
Character_to_string_no_space(o) ==
    IF o.kind = "Static" THEN Ok(StrCharacter)
    ELSE LET number == Context_read_u8(o)
         IN IF ~number.ok THEN number
            ELSE IF number.value > 32 /\ number.value < 127
                 THEN Ok(<<number.value>>)
                 ELSE Ok(StrInvalid)

\* Character::to_string
Character_to_string(o) ==
    IF o.kind = "Static" THEN Ok(StrCharacter)
    ELSE LET number == Context_read_u8(o)
         IN IF ~number.ok THEN number
            ELSE IF number.value > 31 /\ number.value < 127
                 THEN Ok(<<number.value>>)
                 ELSE Ok(StrInvalid)

RECURSIVE H2Type_is_static(_)
RECURSIVE H2Type_size(_, _, _)
RECURSIVE H2Type_children(_, _)
RECURSIVE H2Type_to_string(_, _)
RECURSIVE H2Type_fully_resolve(_, _)
RECURSIVE H2Array_resolve_partial_from(_, _, _, _, _)
RECURSIVE H2Array_to_strings(_, _, _)
RECURSIVE FullyResolveChildren(_, _, _)

\* H2Type::is_static; H2Array::is_static asks the element type
H2Type_is_static(t) ==
    IF t.field.kind = "H2Array" THEN H2Type_is_static(t.field.field_type)
    ELSE TRUE

\* H2Array::size
H2Array_size(a, o) ==
    IF H2Type_is_static(a.field_type)
    THEN LET s == H2Type_size(a.field_type, o, "Yes")
         IN IF ~s.ok THEN s ELSE Ok(a.length * s.value)
    ELSE Err("We can't calculate size of Dynamic arrays yet")

\* H2Type::size with Align::Yes or Align::No
H2Type_size(t, o, align) ==
    LET s == IF t.field.kind = "H2Array" THEN H2Array_size(t.field, o)
             ELSE Character_size(o)
    IN IF ~s.ok THEN s
       ELSE IF align = "Yes" THEN Ok(maybe_round_up(s.value, t.byte_alignment))
            ELSE s

RECURSIVE H2Array_resolve_partial_from_packed(_, _, _, _, _)
\* the loop of H2Array::resolve_partial, were the next element to start
\* where the one before ends, with no padding up to the alignment
H2Array_resolve_partial_from_packed(a, o, i, start, res) ==
    IF i >= a.length THEN Ok(res)
    ELSE LET this_offset == ResolveOffset_at(o, start)
             plain == H2Type_size(a.field_type, this_offset, "No")
         IN IF ~plain.ok THEN plain
            ELSE H2Array_resolve_partial_from_packed(a, o, i + 1,
                   start + plain.value,
                   Append(res,
                          [offset |-> [start |-> start,
                                       end |-> start + plain.value],
                           field_name |-> Some(ToDecimalString(i)),
                           field_type |-> a.field_type]))

\* the loop of H2Array::resolve_partial from element i on, with the
\* elements before it in result and the next element at start
H2Array_resolve_partial_from(a, o, i, start, res) ==
    IF i >= a.length THEN Ok(res)
    ELSE LET this_offset == ResolveOffset_at(o, start)
             plain == H2Type_size(a.field_type, this_offset, "No")
             aligned == H2Type_size(a.field_type, this_offset, "Yes")
         IN IF ~plain.ok THEN plain
            ELSE IF ~aligned.ok THEN aligned
                 ELSE H2Array_resolve_partial_from(a, o, i + 1,
                        start + aligned.value,
                        Append(res,
                               [offset |-> [start |-> start,
                                            end |-> start + plain.value],
                                field_name |-> Some(ToDecimalString(i)),
                                field_type |-> a.field_type]))

\* H2Array::resolve_partial, the children of an array
H2Array_resolve_partial(a, o) ==
    H2Array_resolve_partial_from(a, o, 0, ResolveOffset_position(o), <<>>)

\* H2Type::children; a Character has the trait's default, no children
H2Type_children(t, o) ==
    IF t.field.kind = "H2Array" THEN H2Array_resolve_partial(t.field, o)
    ELSE Ok(<<>>)

RECURSIVE H2Array_to_strings_skipping(_, _, _)
\* the collect of H2Array::to_string, were a child that fails to render
\* left out instead of ending the call
H2Array_to_strings_skipping(children, o, i) ==
    IF i > Len(children) THEN Ok(<<>>)
    ELSE LET c == children[i]
             s == H2Type_to_string(c.field_type,
                                   ResolveOffset_at(o, c.offset.start))
             rest == H2Array_to_strings_skipping(children, o, i + 1)
         IN IF ~s.ok THEN rest
            ELSE Ok(<<s.value>> \o rest.value)

\* the collect of H2Array::to_string: the renderings of the children from
\* the i-th on, or the first error
H2Array_to_strings(children, o, i) ==
    IF i > Len(children) THEN Ok(<<>>)
    ELSE LET c == children[i]
             s == H2Type_to_string(c.field_type,
                                   ResolveOffset_at(o, c.offset.start))
         IN IF ~s.ok THEN s
            ELSE LET rest == H2Array_to_strings(children, o, i + 1)
                 IN IF ~rest.ok THEN rest
                    ELSE Ok(<<s.value>> \o rest.value)

\* H2Array::to_string
H2Array_to_string(a, o) ==
    LET children == H2Array_resolve_partial(a, o)
    IN IF ~children.ok THEN children
       ELSE LET strings == H2Array_to_strings(children.value, o, 1)
            IN IF ~strings.ok THEN strings
               ELSE Ok(<<91>> \o Join(strings.value) \o <<93>>)

\* H2Type::to_string
H2Type_to_string(t, o) ==
    IF t.field.kind = "H2Array" THEN H2Array_to_string(t.field, o)
    ELSE Character_to_string(o)

RECURSIVE FullyResolveChildren_in_place(_, _, _)
\* the loop of H2Type::fully_resolve, were every child resolved at the
\* offset of its parent instead of its own start
FullyResolveChildren_in_place(children, o, i) ==
    IF i > Len(children) THEN Ok(<<>>)
    ELSE LET child == children[i]
             r == H2Type_fully_resolve(child.field_type, o)
         IN IF ~r.ok THEN r
            ELSE LET rest == FullyResolveChildren_in_place(children, o, i + 1)
                 IN IF ~rest.ok THEN rest
                    ELSE Ok(r.value \o rest.value)

\* the loop of H2Type::fully_resolve over the children from the i-th on
FullyResolveChildren(children, o, i) ==
    IF i > Len(children) THEN Ok(<<>>)
    ELSE LET child == children[i]
             r == H2Type_fully_resolve(child.field_type,
                                       ResolveOffset_at(o, child.offset.start))
         IN IF ~r.ok THEN r
            ELSE LET rest == FullyResolveChildren(children, o, i + 1)
                 IN IF ~rest.ok THEN rest
                    ELSE Ok(r.value \o rest.value)

\* H2Type::fully_resolve
H2Type_fully_resolve(t, o) ==
    LET children == H2Type_children(t, o)
    IN IF ~children.ok THEN children
       ELSE IF Len(children.value) = 0
            THEN LET s == H2Type_size(t, o, "No")
                 IN IF ~s.ok THEN s
                    ELSE Ok(<<[offset |->
                                  [start |-> ResolveOffset_position(o),
                                   end |-> ResolveOffset_position(o) + s.value],
                               field_name |-> None,
                               field_type |-> t]>>)
            ELSE FullyResolveChildren(children.value, o, 1)

----------------------------------------------------------------------------
(* SpecType: a caller builds an H2Type, nesting arrays, picks a             *)
(* ResolveOffset, and calls size, children, to_string and fully_resolve.    *)

\* deepest nesting of arrays the model builds
MaxDepth == 2

\* array lengths handed to H2Array::new
LengthInputs == {0, 2, 3}

\* Option<u64> byte alignments handed to H2Type::new_aligned
AlignmentInputs == {None, Some(4)}

\* b"A\x1f ~\x7f\xc8", the bytes of the Dynamic contexts
ContextData == <<65, 31, 32, 126, 127, 200>>

\* the ResolveOffsets the calls are made with
ResolveOffsetInputs ==
    {ResolveOffset_Static(0), ResolveOffset_Static(5),
     ResolveOffset_Dynamic(ContextData, 0),
     ResolveOffset_Dynamic(ContextData, 2)}

\* how deep the arrays of t nest
RECURSIVE Depth(_)
Depth(t) ==
    IF t.field.kind = "H2Array" THEN 1 + Depth(t.field.field_type) ELSE 0

InitType ==
    /\ project = NewProject(InitialName)
    /\ action = None
    /\ entries = <<>>
    /\ current = 0
    /\ buffer = None
    /\ cloned = None
    /\ created = None
    /\ trail = <<>>
    /\ h2type = H2Type_Character(None)
    /\ resolve_offset = ResolveOffset_Static(0)
    /\ generic_number = <<>>
    /\ generic_formatter = <<>>
    /\ aes_key = <<>>
    /\ aes_iv = <<>>
    /\ last_result = <<>>

\* what SpecType leaves alone
typeFrame ==
    <<project, action, entries, current, buffer, cloned, created, trail,
      generic_number, generic_formatter, aes_key, aes_iv>>

\* the record of one call on the type: what was called and what it returned
TypeCall(op, r) == <<[op |-> op, ok |-> r.ok, err |-> r.err, value |-> r.value]>>

\* let t = H2Type::from((alignment, Character::new()))
TypeNewCharacter(byte_alignment) ==
    /\ h2type' = H2Type_Character(byte_alignment)
    /\ last_result' = <<>>
    /\ UNCHANGED <<resolve_offset, typeFrame>>

\* let t = H2Type::from((alignment, H2Array::new(length, t)))
TypeNewArray(length, byte_alignment) ==
    /\ Depth(h2type) < MaxDepth
    /\ h2type' = H2Type_H2Array(byte_alignment, H2Array_new(length, h2type))
    /\ last_result' = <<>>
    /\ UNCHANGED <<resolve_offset, typeFrame>>

\* let offset = ResolveOffset::Static(n) or ResolveOffset::Dynamic(context)
OffsetNew(o) ==
    /\ resolve_offset' = o
    /\ last_result' = <<>>
    /\ UNCHANGED <<h2type, typeFrame>>

\* t.size(&offset, Align::No)
TypeSize ==
    /\ last_result' = TypeCall("size", H2Type_size(h2type, resolve_offset, "No"))
    /\ UNCHANGED <<h2type, resolve_offset, typeFrame>>

\* t.children(&offset)
TypeChildren ==
    /\ last_result' = TypeCall("children",
                               H2Type_children(h2type, resolve_offset))
    /\ UNCHANGED <<h2type, resolve_offset, typeFrame>>

\* t.to_string(&offset)
TypeToString ==
    /\ last_result' = TypeCall("to_string",
                               H2Type_to_string(h2type, resolve_offset))
    /\ UNCHANGED <<h2type, resolve_offset, typeFrame>>

\* t.fully_resolve(&offset)
TypeFullyResolve ==
    /\ last_result' = TypeCall("fully_resolve",
                               H2Type_fully_resolve(h2type, resolve_offset))
    /\ UNCHANGED <<h2type, resolve_offset, typeFrame>>

NextType ==
    \/ \E a \in AlignmentInputs : TypeNewCharacter(a)
    \/ \E n \in LengthInputs, a \in AlignmentInputs : TypeNewArray(n, a)
    \/ \E o \in ResolveOffsetInputs : OffsetNew(o)
    \/ TypeSize
    \/ TypeChildren
    \/ TypeToString
    \/ TypeFullyResolve

SpecType == InitType /\ [][NextType]_vars

----------------------------------------------------------------------------
(* generic_number/generic_formatter: BinaryFormatter, OctalFormatter and    *)
(* ScientificFormatter. An integer is the sequence of its bits, the most    *)
(* significant first, two's complement when signed; a float is its sign,    *)
(* the digits of its shortest decimal form and its decimal exponent.        *)

IntegerVariants ==
    {"U8", "U16", "U32", "U64", "U128", "I8", "I16", "I32", "I64", "I128"}

FloatVariants == {"F32", "F64"}

\* the variants of GenericNumber with a sign bit
SignedVariants == {"I8", "I16", "I32", "I64", "I128"}

\* GenericNumber::U8(v) .. GenericNumber::I128(v)
GenericNumber_Integer(variant, bits) ==
    [variant |-> variant, bits |-> bits,
     negative |-> FALSE, digits |-> <<>>, exponent |-> 0]

\* GenericNumber::F32(v), GenericNumber::F64(v)
GenericNumber_Float(variant, negative, digits, exponent) ==
    [variant |-> variant, bits |-> <<>>,
     negative |-> negative, digits |-> digits, exponent |-> exponent]

\* GenericNumber::Char(c, size)
GenericNumber_Char(bits) ==
    [variant |-> "Char", bits |-> bits,
     negative |-> FALSE, digits |-> <<>>, exponent |-> 0]

\* all of a sequence but its last element
Front(s) == SubSeq(s, 1, Len(s) - 1)

\* the characters '0'..'9' of a sequence of digits
DigitChars(digits) == [i \in 1..Len(digits) |-> 48 + digits[i]]

\* a number printed with no width: its digits from the first that is not 0,
\* and one 0 for zero
StripLeadingZeros(digits) ==
    LET significant == {i \in 1..Len(digits) : digits[i] # 0}
    IN IF significant = {} THEN SubSeq(digits, Len(digits), Len(digits))
       ELSE SubSeq(digits,
                   CHOOSE i \in significant : \A j \in significant : i <= j,
                   Len(digits))

\* the flag 0 with a width, were the width ignored
ZeroPad_ignored(digits, width) == digits

\* the flag 0 with a width: zeros on the left up to width characters
ZeroPad(digits, width) ==
    IF Len(digits) >= width THEN digits
    ELSE [i \in 1..width |->
              IF i <= width - Len(digits) THEN 0
              ELSE digits[i - (width - Len(digits))]]

\* the octal digits of a sequence of bits, three bits a digit from the right
OctalDigits(bits) ==
    LET n == (Len(bits) + 2) \div 3
        bit(i) == IF i < 1 THEN 0 ELSE bits[i]
        last(k) == Len(bits) - 3 * (n - k)
    IN [k \in 1..n |->
            4 * bit(last(k) - 2) + 2 * bit(last(k) - 1) + bit(last(k))]

\* format!("{:0<width>b}", v), and format!("{:b}", v) for width 0
Format_b(bits, width) ==
    DigitChars(ZeroPad(StripLeadingZeros(bits), width))

\* format!("{:0<width>o}", v), and format!("{:o}", v) for width 0
Format_o(bits, width) ==
    DigitChars(ZeroPad(StripLeadingZeros(OctalDigits(bits)), width))

\* BinaryFormatter::new
BinaryFormatter_new(prefix, padded) ==
    [kind |-> "Binary", prefix |-> prefix, padded |-> padded]

\* OctalFormatter::new
OctalFormatter_new(prefix, padded) ==
    [kind |-> "Octal", prefix |-> prefix, padded |-> padded]

\* ScientificFormatter::new
ScientificFormatter_new(uppercase) ==
    [kind |-> "Scientific", uppercase |-> uppercase]

\* BinaryFormatter::render, were a character rendered as the integer of
\* its code
BinaryFormatter_render_char_code(f, number) ==
    IF number.variant \in FloatVariants
    THEN Err("Cannot display floating point as binary")
    ELSE LET s == Format_b(number.bits,
                           IF f.padded THEN Len(number.bits) ELSE 0)
         IN IF f.prefix THEN Ok(<<48, 98>> \o s) ELSE Ok(s)

\* BinaryFormatter::render
BinaryFormatter_render(f, number) ==
    IF number.variant \in FloatVariants
    THEN Err("Cannot display floating point as binary")
    ELSE IF number.variant = "Char"
    THEN Err("Cannot display character as binary")
    ELSE LET s == CASE f.padded /\ number.variant = "U8" ->
                           Format_b(number.bits, 8)
                    [] f.padded /\ number.variant = "U16" ->
                           Format_b(number.bits, 16)
                    [] f.padded /\ number.variant = "U32" ->
                           Format_b(number.bits, 32)
                    [] f.padded /\ number.variant = "U64" ->
                           Format_b(number.bits, 64)
                    [] f.padded /\ number.variant = "U128" ->
                           Format_b(number.bits, 128)
                    [] f.padded /\ number.variant = "I8" ->
                           Format_b(number.bits, 8)
                    [] f.padded /\ number.variant = "I16" ->
                           Format_b(number.bits, 16)
                    [] f.padded /\ number.variant = "I32" ->
                           Format_b(number.bits, 32)
                    [] f.padded /\ number.variant = "I64" ->
                           Format_b(number.bits, 64)
                    [] f.padded /\ number.variant = "I128" ->
                           Format_b(number.bits, 128)
                    [] OTHER -> Format_b(number.bits, 0)
         IN IF f.prefix THEN Ok(<<48, 98>> \o s) ELSE Ok(s)

\* OctalFormatter::render
OctalFormatter_render(f, number) ==
    IF number.variant \in FloatVariants
    THEN Err("Cannot display floating point as octal")
    ELSE IF number.variant = "Char"
    THEN Err("Cannot display character as octal")
    ELSE LET s == CASE f.padded /\ number.variant = "U8" ->
                           Format_o(number.bits, 3)
                    [] f.padded /\ number.variant = "U16" ->
                           Format_o(number.bits, 6)
                    [] f.padded /\ number.variant = "U32" ->
                           Format_o(number.bits, 11)
                    [] f.padded /\ number.variant = "U64" ->
                           Format_o(number.bits, 22)
                    [] f.padded /\ number.variant = "U128" ->
                           Format_o(number.bits, 43)
                    [] f.padded /\ number.variant = "I8" ->
                           Format_o(number.bits, 3)
                    [] f.padded /\ number.variant = "I16" ->
                           Format_o(number.bits, 6)
                    [] f.padded /\ number.variant = "I32" ->
                           Format_o(number.bits, 11)
                    [] f.padded /\ number.variant = "I64" ->
                           Format_o(number.bits, 22)
                    [] f.padded /\ number.variant = "I128" ->
                           Format_o(number.bits, 43)
                    [] OTHER -> Format_o(number.bits, 0)
         IN IF f.prefix THEN Ok(<<48, 111>> \o s) ELSE Ok(s)

\* the number a byte of 8 bits stands for
ByteValue(bits) ==
    128 * bits[1] + 64 * bits[2] + 32 * bits[3] + 16 * bits[4]
        + 8 * bits[5] + 4 * bits[6] + 2 * bits[7] + bits[8]

\* 256 times a number plus a carry, the number a sequence of groups of four
\* decimal digits
RECURSIVE ShiftByte(_, _)
ShiftByte(groups, carry) ==
    IF groups = <<>>
    THEN (IF carry = 0 THEN <<>> ELSE <<carry>>)
    ELSE LET d == 256 * Last(groups) + carry
         IN Append(ShiftByte(Front(groups), d \div 10000), d % 10000)

\* the unsigned number a sequence of bytes of bits stands for, in groups of
\* four decimal digits
RECURSIVE GroupsOfBits(_)
GroupsOfBits(bits) ==
    IF bits = <<>> THEN <<>>
    ELSE ShiftByte(GroupsOfBits(SubSeq(bits, 1, Len(bits) - 8)),
                   ByteValue(SubSeq(bits, Len(bits) - 7, Len(bits))))

\* the decimal digits of the unsigned number a sequence of bits stands for
DecimalOfBits(bits) ==
    LET groups == GroupsOfBits(bits)
        digit(g, k) == CASE k = 0 -> g \div 1000
                         [] k = 1 -> (g \div 100) % 10
                         [] k = 2 -> (g \div 10) % 10
                         [] k = 3 -> g % 10
    IN IF groups = <<>> THEN <<0>>
       ELSE StripLeadingZeros(
                [i \in 1..(4 * Len(groups)) |->
                     digit(groups[((i - 1) \div 4) + 1], (i - 1) % 4)])

\* the bits of the absolute value of a negative two's complement number:
\* every bit left of the last 1 inverted
Magnitude(bits) ==
    LET ones == {i \in 1..Len(bits) : bits[i] = 1}
        last == CHOOSE i \in ones : \A j \in ones : j <= i
    IN [i \in 1..Len(bits) |-> IF i < last THEN 1 - bits[i] ELSE bits[i]]

\* a decimal number without the zeros at its end, one digit kept
StripTrailingZeros(digits) ==
    LET significant == {i \in 1..Len(digits) : digits[i] # 0}
    IN IF significant = {} THEN SubSeq(digits, 1, 1)
       ELSE SubSeq(digits, 1,
                   CHOOSE i \in significant : \A j \in significant : j <= i)

\* the exponent of format!("{:e}"): decimal, with '-' when negative
ExponentString(exponent) ==
    IF exponent < 0 THEN <<45>> \o ToDecimalString(0 - exponent)
    ELSE ToDecimalString(exponent)

\* format!("{:e}") and format!("{:E}") of a sign, the digits of the
\* mantissa and the exponent: d[.ddd]e<exponent>
Format_e(negative, digits, exponent, uppercase) ==
    (IF negative THEN <<45>> ELSE <<>>)
    \o <<48 + digits[1]>>
    \o (IF Len(digits) > 1 THEN <<46>> \o DigitChars(Tail(digits)) ELSE <<>>)
    \o <<IF uppercase THEN 69 ELSE 101>>
    \o ExponentString(exponent)

\* ScientificFormatter::render
ScientificFormatter_render(f, number) ==
    IF number.variant = "Char"
    THEN Err("Cannot display character as scientific")
    ELSE IF number.variant \in FloatVariants
    THEN Ok(Format_e(number.negative, number.digits, number.exponent,
                     f.uppercase))
    ELSE LET negative == number.variant \in SignedVariants /\ number.bits[1] = 1
             digits == DecimalOfBits(IF negative THEN Magnitude(number.bits)
                                     ELSE number.bits)
         IN Ok(Format_e(negative, StripTrailingZeros(digits), Len(digits) - 1,
                        f.uppercase))

\* GenericFormatter::render: the formatter of the variant renders
GenericFormatter_render(f, number) ==
    CASE f.kind = "Binary" -> BinaryFormatter_render(f, number)
      [] f.kind = "Octal" -> OctalFormatter_render(f, number)
      [] f.kind = "Scientific" -> ScientificFormatter_render(f, number)

----------------------------------------------------------------------------
(* SpecFormat: a caller picks a GenericNumber and a formatter and renders.  *)

\* the width in bits of an integer variant
Width(variant) ==
    CASE variant \in {"U8", "I8"} -> 8
      [] variant \in {"U16", "I16"} -> 16
      [] variant \in {"U32", "I32"} -> 32
      [] variant \in {"U64", "I64"} -> 64
      [] variant \in {"U128", "I128"} -> 128

\* the bit patterns of width w the numbers are made of: 0, 1, the greatest
\* signed value, the least signed value, all ones, and 1010..10
BitPatterns(w) ==
    {[i \in 1..w |-> 0],
     [i \in 1..w |-> IF i = w THEN 1 ELSE 0],
     [i \in 1..w |-> IF i = 1 THEN 0 ELSE 1],
     [i \in 1..w |-> IF i = 1 THEN 1 ELSE 0],
     [i \in 1..w |-> 1],
     [i \in 1..w |-> i % 2]}

\* the numbers handed to render: every integer variant over BitPatterns,
\* 314.159 and -0.5 as F32 and F64, and the character 'A'
GenericNumberInputs ==
    {GenericNumber_Integer(v, b) :
         <<v, b>> \in UNION {{v} \X BitPatterns(Width(v)) :
                                 v \in IntegerVariants}}
    \cup {GenericNumber_Float(v, FALSE, <<3, 1, 4, 1, 5, 9>>, 2) :
              v \in FloatVariants}
    \cup {GenericNumber_Float(v, TRUE, <<5>>, 0 - 1) : v \in FloatVariants}
    \cup {GenericNumber_Char(<<0, 1, 0, 0, 0, 0, 0, 1>>)}

InitFormat ==
    /\ project = NewProject(InitialName)
    /\ action = None
    /\ entries = <<>>
    /\ current = 0
    /\ buffer = None
    /\ cloned = None
    /\ created = None
    /\ trail = <<>>
    /\ h2type = <<>>
    /\ resolve_offset = <<>>
    /\ generic_number = GenericNumber_Integer("U8", [i \in 1..8 |-> 0])
    /\ generic_formatter = BinaryFormatter_new(TRUE, TRUE)
    /\ aes_key = <<>>
    /\ aes_iv = <<>>
    /\ last_result = <<>>

\* what SpecFormat leaves alone
formatFrame ==
    <<project, action, entries, current, buffer, cloned, created, trail,
      h2type, resolve_offset, aes_key, aes_iv>>

\* let number = ...
NumberNew(number) ==
    /\ generic_number' = number
    /\ last_result' = <<>>
    /\ UNCHANGED <<generic_formatter, formatFrame>>

\* let formatter = BinaryFormatter::new(prefix, padded)
FormatterNewBinary(prefix, padded) ==
    /\ generic_formatter' = BinaryFormatter_new(prefix, padded)
    /\ last_result' = <<>>
    /\ UNCHANGED <<generic_number, formatFrame>>

\* let formatter = OctalFormatter::new(prefix, padded)
FormatterNewOctal(prefix, padded) ==
    /\ generic_formatter' = OctalFormatter_new(prefix, padded)
    /\ last_result' = <<>>
    /\ UNCHANGED <<generic_number, formatFrame>>

\* let formatter = ScientificFormatter::new(uppercase)
FormatterNewScientific(uppercase) ==
    /\ generic_formatter' = ScientificFormatter_new(uppercase)
    /\ last_result' = <<>>
    /\ UNCHANGED <<generic_number, formatFrame>>

\* formatter.render(number)
FormatterRender ==
    /\ last_result' = TypeCall("render",
                               GenericFormatter_render(generic_formatter,
                                                       generic_number))
    /\ UNCHANGED <<generic_number, generic_formatter, formatFrame>>

NextFormat ==
    \/ \E number \in GenericNumberInputs : NumberNew(number)
    \/ \E prefix \in BOOLEAN, padded \in BOOLEAN :
           FormatterNewBinary(prefix, padded)
    \/ \E prefix \in BOOLEAN, padded \in BOOLEAN :
           FormatterNewOctal(prefix, padded)
    \/ \E uppercase \in BOOLEAN : FormatterNewScientific(uppercase)
    \/ FormatterRender

SpecFormat == InitFormat /\ [][NextFormat]_vars

----------------------------------------------------------------------------
(* SpecSettings: a caller picks a key and an iv and builds AESSettings.     *)

\* the lengths of the keys handed to AESSettings::new
KeyLengthInputs == {0, 15, 16, 24, 32, 33}

\* the byte the keys handed to AESSettings::new are filled with
KeyFillInputs == {0, 65, 66, 255}

\* the keys handed to AESSettings::new, the three literals of its arms
\* among them
KeyInputs ==
    {Repeat(b, n) : <<b, n>> \in KeyFillInputs \X KeyLengthInputs}
    \cup {HardcodedKey128, HardcodedKey192, HardcodedKey256}

\* the Option<[u8; 16]> ivs handed to AESSettings::new
IvInputs == {None, Some(Repeat(0, AesBlockBytes)), Some(Repeat(1, AesBlockBytes))}

InitSettings ==
    /\ project = NewProject(InitialName)
    /\ action = None
    /\ entries = <<>>
    /\ current = 0
    /\ buffer = None
    /\ cloned = None
    /\ created = None
    /\ trail = <<>>
    /\ h2type = <<>>
    /\ resolve_offset = <<>>
    /\ generic_number = <<>>
    /\ generic_formatter = <<>>
    /\ aes_key = HardcodedKey128
    /\ aes_iv = None
    /\ last_result = <<>>

\* what SpecSettings leaves alone
settingsFrame ==
    <<project, action, entries, current, buffer, cloned, created, trail,
      h2type, resolve_offset, generic_number, generic_formatter>>

\* let key: Vec<u8> = ...
KeyNew(k) ==
    /\ aes_key' = k
    /\ last_result' = <<>>
    /\ UNCHANGED <<aes_iv, settingsFrame>>

\* let iv: Option<[u8; 16]> = ...
IvNew(i) ==
    /\ aes_iv' = i
    /\ last_result' = <<>>
    /\ UNCHANGED <<aes_key, settingsFrame>>

\* AESSettings::new(key, iv)
SettingsNew ==
    /\ last_result' = TypeCall("new", AESSettings_new(aes_key, aes_iv))
    /\ UNCHANGED <<aes_key, aes_iv, settingsFrame>>

NextSettings ==
    \/ \E k \in KeyInputs : KeyNew(k)
    \/ \E i \in IvInputs : IvNew(i)
    \/ SettingsNew

SpecSettings == InitSettings /\ [][NextSettings]_vars

----------------------------------------------------------------------------
(* Properties of the actions under direct calls (SpecAction) *)

\* the call before the last one
Prev(t) == t[Len(t) - 1]

RenameKinds == {"ProjectRename", "ProjectRenameBak"}

\* C1: applying a ProjectRename whose new_name is empty returns an error and
\* leaves the project name as it was.
C1_BlankRenameFails ==
    (/\ Len(trail) > 0
     /\ Last(trail).op = "apply"
     /\ Last(trail).before.action.kind \in RenameKinds
     /\ Last(trail).before.action.forward = Some(ActionProjectRenameForward("")))
    => (/\ ~Last(trail).ok
        /\ project.name = Last(trail).before.project.name)

\* C3: when apply(a) succeeded on project P and undo(a) is called next, the
\* undo succeeds, the project is P again (name and buffers) and a carries
\* the forward payload it had before the apply, and no backward payload.
C3_UndoRestoresProjectAndForward ==
    (/\ Len(trail) >= 2
     /\ Prev(trail).op = "apply"
     /\ Prev(trail).ok
     /\ Last(trail).op = "undo")
    => (/\ Last(trail).ok
        /\ project = Prev(trail).before.project
        /\ Unwrap(action).forward = Prev(trail).before.action.forward
        /\ IsNone(Unwrap(action).backward))

\* an apply changed the project and the undo after it has been called
C3_Witness ==
    /\ Len(trail) >= 2
    /\ Prev(trail).op = "apply"
    /\ Prev(trail).ok
    /\ Last(trail).op = "undo"
    /\ Last(trail).before.project # Prev(trail).before.project
    /\ Last(trail).before.action.kind = "ProjectRename"

\* C5: apply on an action whose forward payload is gone (it was applied and
\* not undone), and undo on an action with no backward payload (never
\* applied, or undone already), fail with "missing context" and leave the
\* project as it was.
C5_MissingContext ==
    /\ (/\ Len(trail) > 0
        /\ Last(trail).op = "apply"
        /\ \/ IsNone(Last(trail).before.action.forward)
           \/ (Len(trail) >= 2 /\ Prev(trail).op = "apply" /\ Prev(trail).ok))
       => (/\ ~Last(trail).ok
           /\ Last(trail).err = "Failed to apply: missing context"
           /\ project = Last(trail).before.project)
    /\ (/\ Len(trail) > 0
        /\ Last(trail).op = "undo"
        /\ \/ IsNone(Last(trail).before.action.backward)
           \/ Len(trail) = 1
           \/ (Len(trail) >= 2 /\ Prev(trail).op = "undo" /\ Prev(trail).ok))
       => (/\ ~Last(trail).ok
           /\ Last(trail).err = "Failed to undo: missing context"
           /\ project = Last(trail).before.project)

\* a ProjectRename was applied, and apply was called on it again
C5_Witness ==
    /\ Len(trail) >= 2
    /\ Prev(trail).op = "apply"
    /\ Prev(trail).ok
    /\ Last(trail).op = "apply"
    /\ Last(trail).before.action.kind = "ProjectRename"
    /\ ~Last(trail).ok

\* C6: after every apply or undo call, failed or not, exactly one of the
\* action's forward and backward slots is populated: forward on a new
\* action, backward after a successful apply, forward after a successful
\* undo.
C6_ExactlyOneSlot ==
    IsSome(action) =>
        LET a == Unwrap(action)
        IN /\ IsSome(a.forward) # IsSome(a.backward)
           /\ Len(trail) = 0 => IsSome(a.forward)
           /\ (Len(trail) > 0 /\ Last(trail).ok /\ Last(trail).op = "apply")
                => IsSome(a.backward)
           /\ (Len(trail) > 0 /\ Last(trail).ok /\ Last(trail).op = "undo")
                => IsSome(a.forward)

\* a ProjectRename was applied and a second apply on it has failed
C6_Witness ==
    /\ Len(trail) >= 2
    /\ Prev(trail).ok
    /\ ~Last(trail).ok
    /\ Last(trail).op = "apply"
    /\ Unwrap(action).kind = "ProjectRename"
    /\ IsSome(Unwrap(action).backward)

\* C20: apply of BufferCreateEmpty(name, size, base_address) fails and
\* leaves the project as it was when size is 0 or a buffer named name
\* exists; otherwise the project gains under name, and nowhere else, a
\* buffer of size zero bytes at base_address; the undo after a successful
\* apply succeeds and leaves the project without that buffer, as before.
C20_BufferCreateEmpty ==
    /\ (/\ Len(trail) > 0
        /\ Last(trail).op = "apply"
        /\ Last(trail).before.action.kind = "BufferCreateEmpty"
        /\ IsSome(Last(trail).before.action.forward))
       => LET f == Unwrap(Last(trail).before.action.forward)
              p == Last(trail).before.project
          IN IF f.size = 0 \/ IsSome(p.buffers[f.name])
             THEN ~Last(trail).ok /\ project = p
             ELSE /\ Last(trail).ok
                  /\ IsSome(project.buffers[f.name])
                  /\ Unwrap(project.buffers[f.name]).data
                       = [i \in 1..f.size |-> 0]
                  /\ Unwrap(project.buffers[f.name]).base_address
                       = f.base_address
                  /\ \A n \in BufferNames \ {f.name} :
                        project.buffers[n] = p.buffers[n]
                  /\ project.name = p.name
    /\ (/\ Len(trail) >= 2
        /\ Prev(trail).op = "apply"
        /\ Prev(trail).ok
        /\ Prev(trail).before.action.kind = "BufferCreateEmpty"
        /\ Last(trail).op = "undo")
       => (/\ Last(trail).ok
           /\ IsNone(project.buffers[
                  Unwrap(Prev(trail).before.action.forward).name])
           /\ project = Prev(trail).before.project)

\* a BufferCreateEmpty of two bytes at base address 1 was applied and has
\* just been undone
C20_Witness ==
    /\ Len(trail) >= 2
    /\ Prev(trail).op = "apply"
    /\ Prev(trail).ok
    /\ Prev(trail).before.action =
         Action_buffer_create_empty("b1", 2, 1)
    /\ Last(trail).op = "undo"
    /\ Last(trail).ok
    /\ Last(trail).before.project.buffers["b1"] =
         H2Buffer_new(<<0, 0>>, 1).value
    /\ IsNone(project.buffers["b1"])

\* C21: apply of BufferDelete(name) fails on a buffer with a layer and
\* leaves it in the project; on a buffer without layers it succeeds and
\* the project has no buffer of that name; the undo after a successful
\* apply succeeds and puts back under name a buffer with the bytes, the
\* base address and the transformation stack the removed one had.
C21_BufferDelete ==
    /\ (/\ Len(trail) > 0
        /\ Last(trail).op = "apply"
        /\ Last(trail).before.action.kind = "BufferDelete"
        /\ IsSome(Last(trail).before.action.forward)
        /\ IsSome(Last(trail).before.project.buffers[
                     Unwrap(Last(trail).before.action.forward).name]))
       => LET n == Unwrap(Last(trail).before.action.forward).name
              p == Last(trail).before.project
          IN IF Unwrap(p.buffers[n]).layers # {}
             THEN ~Last(trail).ok /\ project = p
             ELSE /\ Last(trail).ok
                  /\ IsNone(project.buffers[n])
                  /\ project.name = p.name
    /\ (/\ Len(trail) >= 2
        /\ Prev(trail).op = "apply"
        /\ Prev(trail).ok
        /\ Prev(trail).before.action.kind = "BufferDelete"
        /\ Last(trail).op = "undo")
       => LET n == Unwrap(Prev(trail).before.action.forward).name
              old == Unwrap(Prev(trail).before.project.buffers[n])
          IN /\ Last(trail).ok
             /\ IsSome(project.buffers[n])
             /\ Unwrap(project.buffers[n]).data = old.data
             /\ Unwrap(project.buffers[n]).base_address = old.base_address
             /\ Unwrap(project.buffers[n]).transformations
                  = old.transformations

\* a BufferDelete removed a buffer that holds a transformation, and its
\* undo has just put the buffer back
C21_Witness ==
    /\ Len(trail) >= 2
    /\ Prev(trail).op = "apply"
    /\ Prev(trail).ok
    /\ Prev(trail).before.action.kind = "BufferDelete"
    /\ Last(trail).op = "undo"
    /\ Last(trail).ok
    /\ IsNone(Last(trail).before.project.buffers["b1"])
    /\ IsSome(project.buffers["b1"])
    /\ Len(Unwrap(project.buffers["b1"]).transformations) > 0

----------------------------------------------------------------------------
(* Properties of the record (Spec) *)

\* non-empty names, the project's own among them
NonEmptyNames == {"name", "newname", "n"}

\* the renames to a name that is not blank, of either command type
NamedRenames ==
       {Action_project_rename(n) : n \in NonEmptyNames}
    \cup {ActionProjectRenameBak_from(n) : n \in NonEmptyNames}

\* C2: from every state the record reaches, with the project named m, and
\* for every rename to a non-empty name n: do(rename) leaves the name n,
\* the undo after it leaves m, and the redo after that leaves n.
C2_RenameRoundTrip ==
    \A a \in NamedRenames :
        LET m == project.name
            n == Unwrap(a.forward).new_name
            d == Record_apply(TheRecord, a)
            u == Record_undo(d.rec)
            r == Record_redo(u.rec)
        IN /\ d.ok /\ d.rec.target.name = n
           /\ u.called /\ u.ok /\ u.rec.target.name = m
           /\ r.called /\ r.ok /\ r.rec.target.name = n

\* the last three calls were the do of a rename, undo, redo
C2_Witness ==
    /\ Len(trail) = 3
    /\ trail[1].op = "do" /\ trail[1].ok
    /\ trail[2].op = "undo" /\ trail[2].ok
    /\ trail[3].op = "redo" /\ trail[3].ok
    /\ entries[current].kind = "ProjectRename"
    /\ project.name = "newname"
    /\ Unwrap(entries[current].backward).old_name = InitialName

\* C4: from every state with an applied action, undo and then redo succeed
\* and leave the project, the entries and the cursor as they were.
C4_UndoRedoIdentity ==
    current > 0 =>
        LET u == Record_undo(TheRecord)
            r == Record_redo(u.rec)
        IN /\ u.called /\ u.ok
           /\ u.rec.current = current - 1
           /\ r.called /\ r.ok
           /\ r.rec = TheRecord

\* undo and then redo have run over a rename that changed the name
C4_Witness ==
    /\ Len(trail) >= 2
    /\ Prev(trail).op = "undo" /\ Prev(trail).ok
    /\ Last(trail).op = "redo" /\ Last(trail).ok
    /\ entries[current].kind = "ProjectRename"
    /\ Unwrap(entries[current].backward).old_name # project.name

\* C7: a successful do leaves the entries up to the old cursor as they
\* were, followed by the new action as its apply left it, and nothing else:
\* the cursor is at the end and nothing is redoable.
C7_DoTruncatesTail ==
    /\ \A a \in DoInputs :
          LET d == Record_apply(TheRecord, a)
          IN d.ok =>
               /\ d.rec.current = current + 1
               /\ Len(d.rec.entries) = d.rec.current
               /\ SubSeq(d.rec.entries, 1, current) = SubSeq(entries, 1, current)
               /\ d.rec.entries[current + 1] = Command_apply(a, project).a
               /\ ~Record_redo(d.rec).called
    /\ (Len(trail) > 0 /\ Last(trail).op = "do" /\ Last(trail).ok)
          => (current = Len(entries) /\ current > 0)

\* a do has run with the cursor before the end and dropped the tail
C7_Witness ==
    /\ Len(trail) > 0
    /\ Last(trail).op = "do"
    /\ Last(trail).ok
    /\ Last(trail).cut > 0
    /\ current = Len(entries)

\* C8: whenever the action's apply or undo returns an error inside do, undo
\* or redo, the project, the entries and the cursor are as before the call.
C8_FailureIsAtomic ==
    /\ \A a \in DoInputs :
          LET d == Record_apply(TheRecord, a)
          IN ~d.ok => d.rec = TheRecord
    /\ LET u == Record_undo(TheRecord) IN ~u.ok => u.rec = TheRecord
    /\ LET r == Record_redo(TheRecord) IN ~r.ok => r.rec = TheRecord

\* the do of a blank rename has failed on a record with an applied action
C8_Witness ==
    /\ Len(trail) > 0
    /\ Last(trail).op = "do"
    /\ ~Last(trail).ok
    /\ Last(trail).err = "Project name can't be blank"
    /\ current > 0

\* apply on es[i], es[i+1], ..., es[k] in order, from project p
RECURSIVE ApplyAll(_, _, _, _)
ApplyAll(es, i, k, p) ==
    IF i > k THEN [ok |-> TRUE, es |-> es, p |-> p]
    ELSE LET r == Command_apply(es[i], p)
         IN IF ~r.ok THEN [ok |-> FALSE, es |-> es, p |-> r.p]
            ELSE ApplyAll([es EXCEPT ![i] = r.a], i + 1, k, r.p)

\* undo on es[k], es[k-1], ..., es[1] in order, from project p
RECURSIVE UndoAll(_, _, _)
UndoAll(es, k, p) ==
    IF k = 0 THEN [ok |-> TRUE, es |-> es, p |-> p]
    ELSE LET r == Command_undo(es[k], p)
         IN IF ~r.ok THEN [ok |-> FALSE, es |-> es, p |-> r.p]
            ELSE UndoAll([es EXCEPT ![k] = r.a], k - 1, r.p)

\* C9 as claimed: calling apply on the logged actions up to the cursor, in
\* order, from the initial project succeeds and gives the current project.
C9_ReplayOfLoggedActions ==
    LET r == ApplyAll(entries, 1, current, NewProject(InitialName))
    IN r.ok /\ r.p = project

\* C9: the logged actions up to the cursor undo in reverse order back to the
\* initial project, and from there, carrying their forward payloads again,
\* apply in order to the current project and the log as it was.
C9_ReplayAfterUndo ==
    LET u == UndoAll(entries, current, project)
        r == ApplyAll(u.es, 1, current, u.p)
    IN /\ u.ok
       /\ u.p = NewProject(InitialName)
       /\ r.ok
       /\ r.p = project
       /\ r.es = entries

\* two actions are applied, the second a rename, and the project differs
\* from the initial one
C9_Witness ==
    /\ current = 2
    /\ entries[current].kind = "ProjectRename"
    /\ project # NewProject(InitialName)
    /\ IsSome(project.buffers["b1"])

----------------------------------------------------------------------------
(* Properties of the buffer (SpecBuffer) *)

\* C10: H2Buffer::new fails on empty bytes, and after every successful call
\* the buffer, and the buffer a clone call returned, hold at least one byte.
C10_DataNeverEmpty ==
    /\ \A b \in BaseInputs : ~H2Buffer_new(<<>>, b).ok
    /\ IsSome(buffer) => H2Buffer_len(Unwrap(buffer)) > 0
    /\ IsSome(cloned) => H2Buffer_len(Unwrap(cloned)) > 0

\* the transformations ts applied in order, first to last, to data
RECURSIVE ApplyTransformations(_, _)
ApplyTransformations(ts, data) ==
    IF Len(ts) = 0 THEN [ok |-> TRUE, err |-> "", value |-> data]
    ELSE LET r == Transformation_transform(Head(ts), data)
         IN IF ~r.ok THEN r ELSE ApplyTransformations(Tail(ts), r.value)

\* the stack applied to the bytes the buffer was created with gives its data
StackExplainsData ==
    LET r == ApplyTransformations(Unwrap(buffer).transformations,
                                  Unwrap(created).data)
    IN r.ok /\ r.value = Unwrap(buffer).data

\* C11 as claimed: after every call, edit and the undo calls among them,
\* the transformation stack applied in order to the bytes the buffer was
\* created with gives the buffer's data.
C11_StackExplainsData ==
    IsSome(buffer) => StackExplainsData

\* C11: while the only calls that succeeded since creation are transform,
\* untransform and rebase, the transformation stack applied in order to
\* the bytes the buffer was created with gives the buffer's data.
C11_StackExplainsComputedData ==
    (IsSome(buffer) /\ Unwrap(created).computed) => StackExplainsData

\* an untransform has just succeeded under a transformation that stays on
\* the stack, on a buffer that only transform and untransform have changed
C11_Witness ==
    /\ IsSome(buffer)
    /\ Unwrap(created).computed
    /\ trail[1].op = "untransform"
    /\ trail[1].ok
    /\ Len(Unwrap(buffer).transformations) = 1
    /\ Unwrap(buffer).data # Unwrap(created).data

\* what the four reshaping calls return on buffer b, over every input
ReshapingCalls(b) ==
       {H2Buffer_transform(b, t) : t \in TransformationInputs}
    \cup {H2Buffer_transform_undo(b, d) : d \in OriginalDataInputs}
    \cup {H2Buffer_untransform(b)}
    \cup {H2Buffer_untransform_undo(b, d, t) :
            d \in OriginalDataInputs, t \in TransformationInputs}

\* C12: on a buffer with at least one layer, transform, transform_undo,
\* untransform and untransform_undo return an error and leave the buffer,
\* its data and its transformation stack among it, as it was.
C12_PopulatedRejectsReshaping ==
    (IsSome(buffer) /\ Unwrap(buffer).layers # {}) =>
        /\ \A r \in ReshapingCalls(Unwrap(buffer)) :
              /\ ~r.ok
              /\ r.err = "Buffer contains data"
              /\ r.b = Unwrap(buffer)
        /\ (trail[1].op \in {"transform", "transform_undo", "untransform",
                             "untransform_undo"}) => ~trail[1].ok

\* transform_undo has been refused on a buffer that has a layer and a
\* transformation to pop
C12_Witness ==
    /\ IsSome(buffer)
    /\ Unwrap(buffer).layers # {}
    /\ Len(Unwrap(buffer).transformations) > 0
    /\ trail[1].op = "transform_undo"
    /\ ~trail[1].ok
    /\ trail[1].err = "Buffer contains data"

\* C13: on a buffer with at least one layer, edit returns an error and
\* leaves the data as it was.
C13_PopulatedRejectsEdit ==
    (IsSome(buffer) /\ Unwrap(buffer).layers # {}) =>
        /\ \A d \in EditInputs, o \in OffsetInputs :
              LET r == H2Buffer_edit(Unwrap(buffer), d, o)
              IN ~r.ok /\ r.b.data = Unwrap(buffer).data
        /\ trail[1].op = "edit" => ~trail[1].ok

\* byte vectors and offsets edit is tried with from every reachable buffer
EditBytes == {<<>>, <<9>>, <<8, 9>>, <<7, 8, 9>>}

EditOffsets == 0..3

\* C14: on a buffer without layers, edit(bytes, offset) fails and changes
\* nothing when bytes is empty or offset + len(bytes) > len(); otherwise it
\* puts bytes at offset..offset+len(bytes), returns the bytes that were
\* there, and leaves the other bytes, the length, the base address and the
\* transformation stack as they were.
C14_EditSplices ==
    (IsSome(buffer) /\ Unwrap(buffer).layers = {}) =>
        \A bytes \in EditBytes, offset \in EditOffsets :
            LET b == Unwrap(buffer)
                r == H2Buffer_edit(b, bytes, offset)
                n == Len(bytes)
            IN IF n = 0 \/ offset + n > Len(b.data)
               THEN ~r.ok /\ r.b = b
               ELSE /\ r.ok
                    /\ r.b.data = SubSeq(b.data, 1, offset) \o bytes
                                   \o SubSeq(b.data, offset + n + 1, Len(b.data))
                    /\ Len(r.b.data) = Len(b.data)
                    /\ r.value = SubSeq(b.data, offset + 1, offset + n)
                    /\ r.b.base_address = b.base_address
                    /\ r.b.transformations = b.transformations
                    /\ r.b.layers = b.layers

\* edit has just written 9 over the second of two bytes of a buffer without
\* layers
C14_Witness ==
    /\ IsSome(buffer)
    /\ Unwrap(buffer).layers = {}
    /\ trail[1].op = "edit"
    /\ trail[1].ok
    /\ Unwrap(buffer).data = <<1, 9>>

\* C15: on a buffer without layers, transform(t) changes nothing when
\* t.transform fails on the data; when it succeeds the data becomes
\* t.transform(old data), t is the new last element of a stack one longer,
\* and the old data is returned.
C15_TransformIsAtomic ==
    (IsSome(buffer) /\ Unwrap(buffer).layers = {}) =>
        \A t \in TransformationInputs :
            LET b == Unwrap(buffer)
                r == H2Buffer_transform(b, t)
                new_data == Transformation_transform(t, b.data)
            IN IF ~new_data.ok
               THEN ~r.ok /\ r.b = b
               ELSE /\ r.ok
                    /\ r.b.data = new_data.value
                    /\ Len(r.b.transformations) = Len(b.transformations) + 1
                    /\ r.b.transformations[Len(r.b.transformations)] = t
                    /\ SubSeq(r.b.transformations, 1, Len(b.transformations))
                         = b.transformations
                    /\ r.value = b.data
                    /\ r.b.base_address = b.base_address

\* the AES transformation has just failed on a buffer without layers that
\* holds a transformation already
C15_Witness ==
    /\ IsSome(buffer)
    /\ Unwrap(buffer).layers = {}
    /\ Len(Unwrap(buffer).transformations) = 1
    /\ trail[1].op = "transform"
    /\ ~trail[1].ok
    /\ trail[1].err # "Buffer contains data"

\* C16: untransform fails and changes nothing when the stack is empty or
\* when the last transformation's untransform fails on the data; when it
\* succeeds, which it does on a buffer without layers in every other case,
\* the stack has lost exactly its last element t, the data is
\* t.untransform(old data), and (old data, t) is returned.
C16_UntransformIsAtomic ==
    IsSome(buffer) =>
        LET b == Unwrap(buffer)
            n == Len(b.transformations)
            r == H2Buffer_untransform(b)
        IN /\ ~r.ok => r.b = b
           /\ n = 0 => ~r.ok
           /\ n > 0 =>
                LET t == b.transformations[n]
                    new_data == Transformation_untransform(t, b.data)
                IN /\ ~new_data.ok => ~r.ok
                   /\ (new_data.ok /\ b.layers = {}) => r.ok
                   /\ r.ok =>
                        /\ r.b.transformations = SubSeq(b.transformations, 1, n - 1)
                        /\ r.b.data = new_data.value
                        /\ r.value = <<b.data, t>>
                        /\ r.b.base_address = b.base_address

\* untransform has just failed in the AES transformation's untransform, on
\* a buffer that holds two transformations
C16_Witness ==
    /\ IsSome(buffer)
    /\ Len(Unwrap(buffer).transformations) = 2
    /\ trail[1].op = "untransform"
    /\ ~trail[1].ok
    /\ trail[1].err = "Not implemented yet!"

\* C17: on a buffer without layers, a successful transform(t) returning o
\* followed by transform_undo(o) succeeds, returns t and leaves the data and
\* the stack as before the transform; a successful untransform returning
\* (o, t) followed by untransform_undo(o, t) succeeds and leaves the data
\* and the stack as before the untransform.
C17_UndoRestores ==
    (IsSome(buffer) /\ Unwrap(buffer).layers = {}) =>
        LET b == Unwrap(buffer)
        IN /\ \A t \in TransformationInputs :
                LET f == H2Buffer_transform(b, t)
                    u == H2Buffer_transform_undo(f.b, f.value)
                IN f.ok =>
                     /\ u.ok
                     /\ u.value = t
                     /\ u.b.data = b.data
                     /\ u.b.transformations = b.transformations
           /\ LET f == H2Buffer_untransform(b)
                  u == H2Buffer_untransform_undo(f.b, f.value[1], f.value[2])
              IN f.ok =>
                   /\ u.ok
                   /\ u.b.data = b.data
                   /\ u.b.transformations = b.transformations

\* transform_undo has just put back the byte the buffer was created with
\* and emptied the stack
C17_Witness ==
    /\ IsSome(buffer)
    /\ Unwrap(buffer).layers = {}
    /\ trail[1].op = "transform_undo"
    /\ trail[1].ok
    /\ Unwrap(buffer).data = <<1>>
    /\ Unwrap(created).data = <<1>>
    /\ Unwrap(buffer).transformations = <<>>

\* range bounds clone_partial is tried with from every reachable buffer
RangeBounds == 0..3

\* the buffer clone_partial is to return for start..end of b: the bytes in
\* the range, at new_base_address if given, else at b's plus start
IsPartialClone(c, b, start, end, new_base_address) ==
    /\ c.data = SubSeq(b.data, start + 1, end)
    /\ c.base_address = IF IsSome(new_base_address)
                        THEN Unwrap(new_base_address)
                        ELSE b.base_address + start

\* C18 as claimed: clone_partial fails when range.end > len(), and in every
\* other case returns a buffer holding the source bytes in the range at
\* the new base address.
C18_ClonePartialOfAnyRange ==
    IsSome(buffer) =>
        \A start \in RangeBounds, end \in RangeBounds,
           new_base_address \in OptionalBaseInputs :
            LET b == Unwrap(buffer)
                r == H2Buffer_clone_partial(b, start, end, new_base_address)
            IN IF end > Len(b.data) THEN ~r.ok
               ELSE /\ r.ok
                    /\ IsPartialClone(Unwrap(r.value), b, start, end,
                                      new_base_address)

\* C18: clone_partial fails when range.end > len() and when the range holds
\* no byte (start = end; start > end panics); in every other case it
\* returns a buffer holding the source bytes in the range at the new base
\* address.
C18_ClonePartialOfNonEmptyRange ==
    IsSome(buffer) =>
        /\ \A start \in RangeBounds, end \in RangeBounds,
              new_base_address \in OptionalBaseInputs :
               LET b == Unwrap(buffer)
                   r == H2Buffer_clone_partial(b, start, end, new_base_address)
               IN IF end > Len(b.data) \/ start >= end THEN ~r.ok /\ IsNone(r.value)
                  ELSE /\ r.ok
                       /\ IsPartialClone(Unwrap(r.value), b, start, end,
                                         new_base_address)
        /\ (trail[1].op = "clone_partial" /\ trail[1].ok) =>
              /\ IsSome(cloned)
              /\ Len(Unwrap(cloned).data) \in 1..Len(Unwrap(buffer).data)

\* clone_partial has just returned the second byte of a two-byte buffer
\* based at 1, with the base address moved to 2
C18_Witness ==
    /\ IsSome(buffer)
    /\ IsSome(cloned)
    /\ trail[1].op = "clone_partial"
    /\ trail[1].ok
    /\ Unwrap(buffer).data = <<1, 2>>
    /\ Unwrap(buffer).base_address = 1
    /\ Unwrap(cloned).data = <<2>>
    /\ Unwrap(cloned).base_address = 2

\* C19: clone_shallow returns a buffer with the source's data and
\* transformation stack and no layers, at new_base_address if given, else
\* at the source's base address.
C19_CloneShallowCopies ==
    IsSome(buffer) =>
        /\ \A new_base_address \in OptionalBaseInputs :
              LET b == Unwrap(buffer)
                  r == H2Buffer_clone_shallow(b, new_base_address)
              IN /\ r.ok
                 /\ Unwrap(r.value).data = b.data
                 /\ Unwrap(r.value).transformations = b.transformations
                 /\ Unwrap(r.value).layers = {}
                 /\ ~H2Buffer_is_populated(Unwrap(r.value))
                 /\ Unwrap(r.value).base_address =
                      IF IsSome(new_base_address) THEN Unwrap(new_base_address)
                      ELSE b.base_address
        /\ trail[1].op = "clone_shallow" => (trail[1].ok /\ IsSome(cloned))

\* C30: transform_undo on a buffer without layers whose stack is empty
\* fails and leaves the data as it was; the stack never has fewer than 0
\* elements, and a transform_undo or an untransform that succeeds leaves it
\* exactly one element shorter.
C30_StackNeverUnderflows ==
    IsSome(buffer) =>
        LET b == Unwrap(buffer)
            n == Len(b.transformations)
        IN /\ n >= 0
           /\ \A d \in OriginalDataInputs :
                  LET r == H2Buffer_transform_undo(b, d)
                  IN /\ (b.layers = {} /\ n = 0) =>
                         /\ ~r.ok
                         /\ r.b.data = b.data
                         /\ r.b.transformations = <<>>
                     /\ r.ok =>
                         /\ n >= 1
                         /\ Len(r.b.transformations) = n - 1
           /\ LET r == H2Buffer_untransform(b)
              IN r.ok =>
                     /\ n >= 1
                     /\ Len(r.b.transformations) = n - 1

\* transform_undo has just failed on a buffer without layers whose stack is
\* empty
C30_Witness ==
    /\ IsSome(buffer)
    /\ Unwrap(buffer).layers = {}
    /\ Unwrap(buffer).transformations = <<>>
    /\ trail[1].op = "transform_undo"
    /\ ~trail[1].ok
    /\ trail[1].err = "No transformations in the stack"

----------------------------------------------------------------------------
(* Properties of the types (SpecType) *)

\* t is, or holds at some depth, an array of length 0
RECURSIVE HasEmptyArray(_)
HasEmptyArray(t) ==
    /\ t.field.kind = "H2Array"
    /\ \/ t.field.length = 0
       \/ HasEmptyArray(t.field.field_type)

\* C22: constructing an array of length 0 is rejected, so the type a caller
\* holds never is, nor holds, an array of length 0.
C22_NoEmptyArray ==
    ~HasEmptyArray(h2type)

\* size rounded up to a multiple of the alignment: the least multiple that
\* is no less than size, and size itself when no alignment is set
AlignedSize(size, byte_alignment) ==
    IF IsNone(byte_alignment) THEN size
    ELSE LET a == Unwrap(byte_alignment)
         IN CHOOSE m \in size..(size + a - 1) : (m % a) = 0

\* the unaligned size of the element type of the array the caller holds
ElementSize == H2Type_size(h2type.field.field_type, resolve_offset, "No").value

\* the aligned size of the element type of the array the caller holds
ElementAlignedSize ==
    AlignedSize(ElementSize, h2type.field.field_type.byte_alignment)

\* C23: the children of an array of n elements resolved at pos: child i
\* ranges over [pos + i * aligned, pos + i * aligned + size) and is named i,
\* aligned being the element's size rounded up to its alignment; the size of
\* the array is n * aligned.
C23_ArrayLayout ==
    (last_result # <<>> /\ h2type.field.kind = "H2Array") =>
        LET r == last_result[1]
            n == h2type.field.length
            pos == resolve_offset.position
        IN /\ r.op = "children" =>
                /\ r.ok
                /\ Len(r.value) = n
                /\ \A i \in 0..(n - 1) :
                       LET c == r.value[i + 1]
                       IN /\ c.offset.start = pos + i * ElementAlignedSize
                          /\ c.offset.end = c.offset.start + ElementSize
                          /\ c.field_name = Some(ToDecimalString(i))
                          /\ c.field_type = h2type.field.field_type
           /\ r.op = "size" => (r.ok /\ r.value = n * ElementAlignedSize)

\* the children of an array of 3 elements padded to 4 bytes each were asked
\* for at a position other than 0
C23_Witness ==
    /\ last_result # <<>>
    /\ last_result[1].op = "children"
    /\ last_result[1].ok
    /\ h2type.field.kind = "H2Array"
    /\ h2type.field.length = 3
    /\ h2type.field.field_type.byte_alignment = Some(4)
    /\ ElementSize # ElementAlignedSize
    /\ resolve_offset.position > 0

\* the leaves of each child of the sequence, one after the other
RECURSIVE LeavesOfChildren(_, _)
LeavesOfChildren(children, o) ==
    IF children = <<>> THEN <<>>
    ELSE H2Type_fully_resolve(children[1].field_type,
                              ResolveOffset_at(o, children[1].offset.start)).value
         \o LeavesOfChildren(Tail(children), o)

\* the sum of the aligned sizes of the children of the sequence
RECURSIVE SumAlignedSizes(_)
SumAlignedSizes(children) ==
    IF children = <<>> THEN 0
    ELSE AlignedSize(children[1].offset.end - children[1].offset.start,
                     children[1].field_type.byte_alignment)
         + SumAlignedSizes(Tail(children))

ByteValues == 0..255

\* C25: a Character has size 1 and no children at a Static and at a Dynamic
\* offset; at a Static offset it renders as "Character"; at a Dynamic offset
\* over a byte b it renders as the one character b when 0x20 <= b <= 0x7E
\* and as "<invalid>" for every other b.
C25_Character ==
    h2type.field.kind = "Character" =>
        /\ H2Type_size(h2type, resolve_offset, "No") = Ok(1)
        /\ H2Type_children(h2type, resolve_offset) = Ok(<<>>)
        /\ resolve_offset.kind = "Static" =>
               H2Type_to_string(h2type, resolve_offset) = Ok(StrCharacter)
        /\ \A b \in ByteValues :
               H2Type_to_string(h2type, ResolveOffset_Dynamic(<<b>>, 0))
                   = IF 32 <= b /\ b <= 126 THEN Ok(<<b>>) ELSE Ok(StrInvalid)
        /\ (/\ last_result # <<>>
            /\ last_result[1].op = "to_string"
            /\ resolve_offset.kind = "Dynamic") =>
               LET b == resolve_offset.data[resolve_offset.position + 1]
               IN /\ last_result[1].ok
                  /\ last_result[1].value
                         = IF 32 <= b /\ b <= 126 THEN <<b>> ELSE StrInvalid

\* a Character was rendered at a Dynamic offset over a space, the least
\* printable byte
C25_Witness ==
    /\ h2type.field.kind = "Character"
    /\ resolve_offset.kind = "Dynamic"
    /\ last_result # <<>>
    /\ last_result[1].op = "to_string"
    /\ last_result[1].ok
    /\ last_result[1].value = <<32>>

\* the rendering of element i of the array the caller holds, at the start
\* of child i
ElementString(i) ==
    H2Type_to_string(h2type.field.field_type,
                     ResolveOffset_at(resolve_offset,
                         resolve_offset.position + i * ElementAlignedSize))

\* C29: to_string of an array is all or nothing: when the rendering of an
\* element fails the call returns that error and no string; otherwise it
\* returns "[", the renderings of the elements in index order joined by
\* ", ", and "]", element i rendered at the start of child i.
C29_ArrayToString ==
    (/\ last_result # <<>>
     /\ last_result[1].op = "to_string"
     /\ h2type.field.kind = "H2Array") =>
        LET r == last_result[1]
            n == h2type.field.length
            failing == {i \in 0..(n - 1) : ~ElementString(i).ok}
        IN /\ failing # {} =>
                  /\ ~r.ok
                  /\ r.value = <<>>
                  /\ \E i \in failing :
                         /\ r.err = ElementString(i).err
                         /\ \A j \in failing : i <= j
           /\ failing = {} =>
                  /\ r.ok
                  /\ r.value = <<91>>
                               \o Join([i \in 1..n |-> ElementString(i - 1).value])
                               \o <<93>>

\* an array was rendered at a Dynamic offset whose bytes end before its last
\* element, the first element being there to render
C29_Witness ==
    /\ last_result # <<>>
    /\ last_result[1].op = "to_string"
    /\ ~last_result[1].ok
    /\ h2type.field.kind = "H2Array"
    /\ h2type.field.length = 3
    /\ resolve_offset.kind = "Dynamic"
    /\ ElementString(0).ok
    /\ ~ElementString(2).ok

----------------------------------------------------------------------------
(* Properties of the formatters (SpecFormat) *)

\* the formatter of the kind with the flags
FormatterOf(kind, prefix, padded) ==
    IF kind = "Binary" THEN BinaryFormatter_new(prefix, padded)
    ELSE OctalFormatter_new(prefix, padded)

\* C26: Binary and Octal fail on every F32, F64 and Char whatever their
\* prefix and padded flags and succeed on every integer; Scientific fails on
\* Char only.
C26_FormatterErrors ==
    /\ \A kind \in {"Binary", "Octal"}, prefix \in BOOLEAN, padded \in BOOLEAN :
           GenericFormatter_render(FormatterOf(kind, prefix, padded),
                                   generic_number).ok
               <=> generic_number.variant \in IntegerVariants
    /\ \A uppercase \in BOOLEAN :
           GenericFormatter_render(ScientificFormatter_new(uppercase),
                                   generic_number).ok
               <=> generic_number.variant # "Char"
    /\ (last_result # <<>> /\ last_result[1].op = "render") =>
           (last_result[1].ok <=>
                IF generic_formatter.kind = "Scientific"
                THEN generic_number.variant # "Char"
                ELSE generic_number.variant \in IntegerVariants)

\* the Binary formatter was asked to render a character and failed
C26_Witness ==
    /\ last_result # <<>>
    /\ last_result[1].op = "render"
    /\ ~last_result[1].ok
    /\ generic_formatter.kind = "Binary"
    /\ generic_number.variant = "Char"

\* the digits a formatter of the kind may write
DigitsOf(kind) == IF kind = "Binary" THEN 48..49 ELSE 48..55

\* the digits of the width of the kind: w for Binary, ceil(w / 3) for Octal
PaddedDigits(kind, w) == IF kind = "Binary" THEN w ELSE (w + 2) \div 3

\* C27: for an integer of w bits, Binary padded writes w digits and Octal
\* padded ceil(w / 3) digits (3, 6, 11, 22, 43), zeros filling the left;
\* unpadded they write no leading zero, and "0" for zero; the digits follow
\* "0b" or "0o" with prefix set and nothing without.
C27_PaddingAndPrefix ==
    generic_number.variant \in IntegerVariants =>
        \A kind \in {"Binary", "Octal"}, prefix \in BOOLEAN :
            LET w == Width(generic_number.variant)
                padded == GenericFormatter_render(
                              FormatterOf(kind, prefix, TRUE),
                              generic_number).value
                plain == GenericFormatter_render(
                             FormatterOf(kind, prefix, FALSE),
                             generic_number).value
                body(s) == IF prefix THEN SubSeq(s, 3, Len(s)) ELSE s
                fill == Len(body(padded)) - Len(body(plain))
            IN /\ prefix => /\ SubSeq(padded, 1, 2)
                                = <<48, IF kind = "Binary" THEN 98 ELSE 111>>
                            /\ SubSeq(plain, 1, 2) = SubSeq(padded, 1, 2)
               /\ \A i \in 1..Len(body(padded)) :
                      body(padded)[i] \in DigitsOf(kind)
               /\ \A i \in 1..Len(body(plain)) :
                      body(plain)[i] \in DigitsOf(kind)
               /\ Len(body(padded)) = PaddedDigits(kind, w)
               /\ kind = "Octal" => Len(body(padded)) \in {3, 6, 11, 22, 43}
               /\ fill >= 0
               /\ \A i \in 1..fill : body(padded)[i] = 48
               /\ SubSeq(body(padded), fill + 1, Len(body(padded)))
                      = body(plain)
               /\ Len(body(plain)) >= 1
               /\ Len(body(plain)) > 1 => body(plain)[1] # 48
               /\ (\A i \in 1..w : generic_number.bits[i] = 0)
                      => body(plain) = <<48>>
               /\ (/\ last_result # <<>>
                   /\ last_result[1].op = "render"
                   /\ generic_formatter = FormatterOf(kind, prefix, TRUE))
                      => last_result[1].value = padded
               /\ (/\ last_result # <<>>
                   /\ last_result[1].op = "render"
                   /\ generic_formatter = FormatterOf(kind, prefix, FALSE))
                      => last_result[1].value = plain

\* the Octal formatter, padded and with its prefix, rendered a 128-bit 1 as
\* "0o", 42 zeros and a 1
C27_Witness ==
    /\ last_result # <<>>
    /\ last_result[1].op = "render"
    /\ last_result[1].ok
    /\ generic_formatter = OctalFormatter_new(TRUE, TRUE)
    /\ generic_number.variant = "I128"
    /\ Len(last_result[1].value) = 45
    /\ last_result[1].value[45] = 49
    /\ last_result[1].value[44] = 48

----------------------------------------------------------------------------
(* Properties of the settings (SpecSettings) *)

\* C28: AESSettings::new(key, iv) with a key of 16, 24 or 32 bytes stores
\* the bytes of the key it was handed as the cipher key, so that two keys of
\* one length give different settings; a key of any other length is
\* rejected.
C28_StoresSuppliedKey ==
    /\ (last_result # <<>> /\ last_result[1].op = "new") =>
           IF Len(aes_key) \in {16, 24, 32}
           THEN /\ last_result[1].ok
                /\ last_result[1].value.key.bytes = aes_key
           ELSE ~last_result[1].ok
    /\ \A k \in KeyInputs :
           (/\ Len(k) = Len(aes_key)
            /\ k # aes_key
            /\ Len(k) \in {16, 24, 32}) =>
               AESSettings_new(k, aes_iv).value
                   # AESSettings_new(aes_key, aes_iv).value

=============================================================================
